---------------------------- MODULE Spec2Model ----------------------------
(***************************************************************************)
(* A model of the Jira Service Management assistant (vkarri04/jsmai):      *)
(* the backend resolvers of src/src/index.js (project resolution, the      *)
(* availability policy, the rate limiter, request creation) and the        *)
(* request-creation dialogue of src/static/portal-ui/src/App.js.           *)
(*                                                                         *)
(* JavaScript strings are TLA+ strings; null and undefined are the         *)
(* sentinel NULL.  Every external collaborator (Forge storage, the Jira    *)
(* REST API, the file picker) is an input chosen with \E in the action     *)
(* that models the handler calling it.                                     *)
(***************************************************************************)
EXTENDS Integers, Sequences, FiniteSets, TLC

VARIABLES
    \* ---- Forge storage (shared, durable) ----
    agentSettings,        \* storage "agentSettings": its enableChatbot entry
    fastApiUrl,           \* storage "agentSettings": its fastApiUrl entry
    projectChatSettings,  \* storage "projectChatSettings": project id -> entry
    rateState,            \* storage "portalChatRate:<requester>": window state
    \* ---- clock ----
    now,                  \* Date.now()
    \* ---- last completed getPortalChatAvailability call ----
    avCall,
    \* ---- last completed checkPortalChatRateLimit call and its history ----
    rlCall,
    rlHistory,
    \* ---- last completed createPortalRequest call ----
    crCall,
    \* ---- portal UI session (App component state) ----
    createFlow,           \* useState(INITIAL_CREATE_FLOW)
    lastBot,              \* the bot messages appended by the last handler
    fieldPrompt,          \* the options carried by the last field prompt
    uiEvent,              \* the last UI event handled and the calls it made
    \* ---- LLM settings (Forge storage and encrypted secret storage) ----
    llmSettings,          \* storage "llmSettings": provider, model, legacy apiKey
    llmSecret,            \* secret storage "llmSettingsApiKey"
    llmCall,              \* the last completed getLLMSettings / saveLLMSettings
    \* ---- last completed call of a portal entry point ----
    epCall,
    \* ---- portal UI session: handlers in progress ----
    loading,              \* useState(false): a handler awaits a resolver
    pickerOpen,           \* the file picker of the hidden file input is open
    inFlight,             \* handlers that await a resolver or an upload
    \* ---- checkPortalChatRateLimit calls in progress ----
    rlInFlight,           \* session -> what its call read, and when
    rlRace,               \* calls admitted per window and overlapping pairs
    \* ---- last call of a pure helper of src/src/index.js ----
    fnCall

storageVars == <<agentSettings, fastApiUrl, projectChatSettings>>
availVars   == <<avCall>>
rateVars    == <<rateState, now, rlCall, rlHistory>>
createVars  == <<crCall>>
flowVars    == <<createFlow, lastBot, fieldPrompt, uiEvent>>
llmVars     == <<llmSettings, llmSecret, llmCall>>
entryVars   == <<epCall>>
sessionVars == <<loading, pickerOpen, inFlight>>
raceVars    == <<rlInFlight, rlRace>>
fnVars      == <<fnCall>>
vars == <<agentSettings, fastApiUrl, projectChatSettings, rateState, now, avCall, rlCall,
          rlHistory, crCall, createFlow, lastBot, fieldPrompt, uiEvent,
          llmSettings, llmSecret, llmCall, epCall, loading, pickerOpen,
          inFlight, rlInFlight, rlRace, fnCall>>

\* null / undefined
NULL == "<null>"

-----------------------------------------------------------------------------
(***************************************************************************)
(* String helpers: String.prototype.trim and toLowerCase, includes.        *)
(***************************************************************************)
ChAt(s, i) == SubSeq(s, i, i)

IsSpace(c) == c = " "

RECURSIVE TrimLeft(_)
TrimLeft(s) ==
    IF Len(s) = 0 THEN s
    ELSE IF IsSpace(ChAt(s, 1)) THEN TrimLeft(SubSeq(s, 2, Len(s))) ELSE s

RECURSIVE TrimRight(_)
TrimRight(s) ==
    IF Len(s) = 0 THEN s
    ELSE IF IsSpace(ChAt(s, Len(s))) THEN TrimRight(SubSeq(s, 1, Len(s) - 1)) ELSE s

Trim(s) == TrimRight(TrimLeft(s))

LowerOf(c) ==
    CASE c = "A" -> "a" [] c = "B" -> "b" [] c = "C" -> "c" [] c = "D" -> "d"
      [] c = "E" -> "e" [] c = "F" -> "f" [] c = "G" -> "g" [] c = "H" -> "h"
      [] c = "I" -> "i" [] c = "J" -> "j" [] c = "K" -> "k" [] c = "L" -> "l"
      [] c = "M" -> "m" [] c = "N" -> "n" [] c = "O" -> "o" [] c = "P" -> "p"
      [] c = "Q" -> "q" [] c = "R" -> "r" [] c = "S" -> "s" [] c = "T" -> "t"
      [] c = "U" -> "u" [] c = "V" -> "v" [] c = "W" -> "w" [] c = "X" -> "x"
      [] c = "Y" -> "y" [] c = "Z" -> "z" [] OTHER -> c

RECURSIVE ToLowerCase(_)
ToLowerCase(s) ==
    IF Len(s) = 0 THEN s
    ELSE LowerOf(ChAt(s, 1)) \o ToLowerCase(SubSeq(s, 2, Len(s)))

\* haystack.includes(needle)
Includes(haystack, needle) ==
    \E i \in 1..(Len(haystack) - Len(needle) + 1) :
        SubSeq(haystack, i, i + Len(needle) - 1) = needle

IsDigit(c) == c \in {"0", "1", "2", "3", "4", "5", "6", "7", "8", "9"}

DigitVal(c) ==
    CASE c = "0" -> 0 [] c = "1" -> 1 [] c = "2" -> 2 [] c = "3" -> 3
      [] c = "4" -> 4 [] c = "5" -> 5 [] c = "6" -> 6 [] c = "7" -> 7
      [] c = "8" -> 8 [] c = "9" -> 9

\* \w
IsWordChar(c) ==
    \/ IsDigit(c) \/ c = "_"
    \/ LowerOf(c) \in {"a", "b", "c", "d", "e", "f", "g", "h", "i", "j", "k", "l", "m",
                       "n", "o", "p", "q", "r", "s", "t", "u", "v", "w", "x", "y", "z"}

AllDigits(s) == Len(s) > 0 /\ \A i \in 1..Len(s) : IsDigit(ChAt(s, i))

\* The positions i at which \bword\b matches in text (both lower case).
WordStarts(text, word) ==
    {i \in 1..(Len(text) - Len(word) + 1) :
        /\ SubSeq(text, i, i + Len(word) - 1) = word
        /\ (i = 1 \/ ~IsWordChar(ChAt(text, i - 1)))
        /\ (i + Len(word) > Len(text) \/ ~IsWordChar(ChAt(text, i + Len(word))))}

RECURSIVE DecimalValue(_)
DecimalValue(s) ==
    IF Len(s) = 0 THEN 0
    ELSE 10 * DecimalValue(SubSeq(s, 1, Len(s) - 1)) + DigitVal(ChAt(s, Len(s)))

-----------------------------------------------------------------------------
(***************************************************************************)
(* Context resolver and availability policy (src/src/index.js 18-134).     *)
(***************************************************************************)

\* normalizeProjectId: null/undefined -> null; String(x).trim() || null
normalizeProjectId(projectId) ==
    IF projectId = NULL THEN NULL
    ELSE LET normalized == Trim(projectId)
         IN  IF normalized = "" THEN NULL ELSE normalized

\* The outcomes of one Jira lookup made by the resolver: the call throws, the
\* response is not ok, or it is ok and its body carries the given id value
\* (NULL: the body has no id).
LookupThrows == [kind |-> "throws", id |-> NULL]
LookupNotOk  == [kind |-> "not_ok", id |-> NULL]
LookupOk(id) == [kind |-> "ok", id |-> id]

\* A variant that gives up when the service-desk lookup throws instead of
\* going on to the project key.
resolveGivingUpOnThrow(ctx, env) ==
    LET normalizedProjectId == normalizeProjectId(ctx.projectId)
        normalizedPortalId  == normalizeProjectId(ctx.portalId)
        keyLookup == ctx.projectKey # NULL /\ ctx.projectKey # ""
    IN  IF normalizedProjectId # NULL
        THEN [id |-> normalizedProjectId, lookups |-> <<>>]
        ELSE IF normalizedPortalId # NULL /\ env.portal.kind = "throws"
        THEN [id |-> NULL, lookups |-> <<"servicedesk">>]
        ELSE IF normalizedPortalId # NULL /\ env.portal.kind = "ok"
                /\ normalizeProjectId(env.portal.id) # NULL
        THEN [id |-> normalizeProjectId(env.portal.id),
              lookups |-> <<"servicedesk">>]
        ELSE LET made == IF normalizedPortalId # NULL THEN <<"servicedesk">> ELSE <<>>
             IN  IF ~keyLookup
                 THEN [id |-> NULL, lookups |-> made]
                 ELSE [id |-> IF env.key.kind = "ok"
                              THEN normalizeProjectId(env.key.id) ELSE NULL,
                       lookups |-> Append(made, "project")]

\* resolveProjectIdFromContext: the resolved id and the lookups performed.
\* env.portal / env.key are the outcomes of the service-desk lookup and of
\* the project lookup, were they to be made.
resolveProjectIdFromContext(ctx, env) ==
    LET normalizedProjectId == normalizeProjectId(ctx.projectId)
        normalizedPortalId  == normalizeProjectId(ctx.portalId)
        portalProjectId ==
            IF normalizedPortalId # NULL /\ env.portal.kind = "ok"
            THEN normalizeProjectId(env.portal.id) ELSE NULL
        keyLookup == ctx.projectKey # NULL /\ ctx.projectKey # ""
    IN  IF normalizedProjectId # NULL
        THEN [id |-> normalizedProjectId, lookups |-> <<>>]
        ELSE IF portalProjectId # NULL
        THEN [id |-> portalProjectId, lookups |-> <<"servicedesk">>]
        ELSE LET made == IF normalizedPortalId # NULL THEN <<"servicedesk">> ELSE <<>>
             IN  IF ~keyLookup
                 THEN [id |-> NULL, lookups |-> made]
                 ELSE [id |-> IF env.key.kind = "ok"
                              THEN normalizeProjectId(env.key.id) ELSE NULL,
                       lookups |-> Append(made, "project")]

\* Stored settings values: a missing entry, or the stored boolean.
SettingValues == {"absent", "true", "false"}

\* Project ids the admin screen lists (the keys saveProjectChatSettings stores).
KnownProjectIds == {"10", "20"}

\* A variant that takes any stored entry, true or false, for an enabled project.
ProjectEnabledAnyEntry(projectSettings, projectId) ==
    projectId \in DOMAIN projectSettings /\ projectSettings[projectId] # "absent"

\* projectSettings[resolvedProjectId] is truthy: the entry is stored and true.
\* (The admin screen stores !projectSettings[id], so a project switched off
\* again is stored as false.)
ProjectEnabled(projectSettings, projectId) ==
    projectId \in DOMAIN projectSettings /\ projectSettings[projectId] = "true"

\* A variant that never reads the global flag.
DisabledByAdminIgnored(settings) == FALSE

\* hasExplicitGlobalFlag && !agentSettings.enableChatbot
DisabledByAdmin(settings) == settings = "false"

AvThrew == [kind |-> "threw", enabled |-> FALSE, reason |-> NULL,
            projectId |-> NULL, lookups |-> <<>>]

AvReturned(enabled, reason, projectId, lookups) ==
    [kind |-> "returned", enabled |-> enabled, reason |-> reason,
     projectId |-> projectId, lookups |-> lookups]

\* A variant that closes the assistant when no project id is resolved.
MissingContextDisabled(lookups) ==
    AvReturned(FALSE, "missing_project_context", NULL, lookups)

\* What the policy returns when no project id is resolved.
MissingContextDecision(lookups) ==
    AvReturned(TRUE, "missing_project_context", NULL, lookups)

\* getPortalChatAvailability.  env.agentRead / env.projectRead say whether
\* the storage reads succeed; a failed read rejects the whole call, which
\* has no try/catch.
getPortalChatAvailability(ctx, env, agent, projectSettings) ==
    IF env.agentRead = "throws" THEN AvThrew
    ELSE IF DisabledByAdmin(agent)
    THEN AvReturned(FALSE, "disabled_by_admin", NULL, <<>>)
    ELSE LET resolved == resolveProjectIdFromContext(ctx, env)
         IN  IF resolved.id = NULL
             THEN MissingContextDecision(resolved.lookups)
             ELSE IF env.projectRead = "throws"
             THEN [AvThrew EXCEPT !.lookups = resolved.lookups]
             ELSE IF ~ProjectEnabled(projectSettings, resolved.id)
             THEN AvReturned(FALSE, "disabled_for_project", resolved.id,
                             resolved.lookups)
             ELSE AvReturned(TRUE, NULL, resolved.id, resolved.lookups)

\* ---- inputs of the availability check ----
CtxProjectIds  == {NULL, "", " 10 ", "30"}
CtxPortalIds   == {NULL, "5"}
CtxProjectKeys == {NULL, "IT"}
Contexts == [projectId : CtxProjectIds, portalId : CtxPortalIds,
             projectKey : CtxProjectKeys]

LookupOutcomes == {LookupThrows, LookupNotOk, LookupOk(NULL), LookupOk(" 20")}
ReadOutcomes == {"ok", "throws"}

\* The outcomes that can meet a call with context ctx: a lookup the resolver
\* has no reason to make has no outcome to draw.
AvEnvs(ctx) ==
    LET direct == normalizeProjectId(ctx.projectId) # NULL
        portal == IF ~direct /\ normalizeProjectId(ctx.portalId) # NULL
                  THEN LookupOutcomes ELSE {LookupNotOk}
        key    == IF ~direct /\ ctx.projectKey # NULL
                  THEN LookupOutcomes ELSE {LookupNotOk}
    IN  [portal : portal, key : key,
         agentRead : ReadOutcomes, projectRead : ReadOutcomes]

\* avCall records the last availability call made since the settings were
\* last saved, and epCall the last call of a portal entry point since then.
NoAvCall == [done |-> FALSE]

\* resolver "saveSettings": storage.set("agentSettings", payload)
SaveSettings(flag, url) ==
    /\ agentSettings' = flag
    /\ fastApiUrl' = url
    /\ avCall' = NoAvCall
    /\ epCall' = [done |-> FALSE]
    /\ UNCHANGED <<projectChatSettings, rateVars, createVars, flowVars, llmVars,
                   sessionVars, raceVars,
                   fnVars>>

\* admin handleToggle + resolver "saveProjectChatSettings"
SaveProjectChatSettings(p) ==
    /\ projectChatSettings' =
         [projectChatSettings EXCEPT
            ![p] = IF projectChatSettings[p] = "true" THEN "false" ELSE "true"]
    /\ avCall' = NoAvCall
    /\ epCall' = [done |-> FALSE]
    /\ UNCHANGED <<agentSettings, fastApiUrl, rateVars, createVars, flowVars,
                   llmVars,
                   sessionVars, raceVars,
                   fnVars>>

\* resolver "getPortalChatAvailability"
GetPortalChatAvailability(ctx, env) ==
    /\ avCall' = [done |-> TRUE, ctx |-> ctx, env |-> env,
                  agent |-> agentSettings, projects |-> projectChatSettings,
                  resolved |-> resolveProjectIdFromContext(ctx, env).id,
                  result |-> getPortalChatAvailability(
                                 ctx, env, agentSettings, projectChatSettings)]
    /\ UNCHANGED <<storageVars, rateVars, createVars, flowVars, llmVars,
                 entryVars,
                   sessionVars, raceVars,
                   fnVars>>

-----------------------------------------------------------------------------
(***************************************************************************)
(* Rate limiter (src/src/index.js 652-701).                                *)
(***************************************************************************)
PORTAL_CHAT_RATE_LIMIT_WINDOW_MS == 60 * 1000
PORTAL_CHAT_RATE_LIMIT_MAX_REQUESTS == 20

\* Requester ids as getPortalChatRequesterId yields them: an account id, or
\* the shared "anonymous" bucket.
Requesters == {"acct-1", "anonymous"}

\* Nothing stored under the requester's key: storage.get yields undefined.
NoWindow == [stored |-> FALSE, windowStart |-> 0, count |-> 0]

\* A variant that stores the count without the increment of the call.
StoredWindowUncounted(windowStart, count) ==
    [stored |-> TRUE, windowStart |-> windowStart, count |-> count - 1]

StoredWindow(windowStart, count) ==
    [stored |-> TRUE, windowStart |-> windowStart, count |-> count]

Max(a, b) == IF a >= b THEN a ELSE b

\* Math.ceil(ms / 1000) for ms >= 0
CeilSeconds(ms) == (ms + 999) \div 1000

\* A variant that keeps the window one instant longer.
WindowIsStaleStrict(windowStart, t) ==
    windowStart = 0 \/ t - windowStart > PORTAL_CHAT_RATE_LIMIT_WINDOW_MS

\* !windowStart || now - windowStart >= PORTAL_CHAT_RATE_LIMIT_WINDOW_MS
WindowIsStale(windowStart, t) ==
    windowStart = 0 \/ t - windowStart >= PORTAL_CHAT_RATE_LIMIT_WINDOW_MS

\* A variant that admits one call more.
LimitReachedOffByOne(count) == count > PORTAL_CHAT_RATE_LIMIT_MAX_REQUESTS

\* count >= PORTAL_CHAT_RATE_LIMIT_MAX_REQUESTS
LimitReached(count) == count >= PORTAL_CHAT_RATE_LIMIT_MAX_REQUESTS

RateAllowed == [allowed |-> TRUE, retryAfterSeconds |-> 0]

\* A variant of the catch block that refuses the request.
RefuseOnStorageFailure == [allowed |-> FALSE, retryAfterSeconds |-> 1]

\* The catch block: storage.get or storage.set rejected.
OnStorageFailure == [allowed |-> TRUE, retryAfterSeconds |-> 0]

\* checkPortalChatRateLimit for one requester whose stored state is `state`,
\* at time t.  env.read / env.write say whether storage.get / storage.set
\* succeed.  Yields the result and the state stored afterwards.
checkPortalChatRateLimit(state, t, env) ==
    LET windowStart == state.windowStart
        count       == state.count
    IN  IF env.read = "throws"
        THEN [result |-> OnStorageFailure, state |-> state]
        ELSE IF WindowIsStale(windowStart, t)
        THEN IF env.write = "throws"
             THEN [result |-> OnStorageFailure, state |-> state]
             ELSE [result |-> RateAllowed, state |-> StoredWindow(t, 1)]
        ELSE IF LimitReached(count)
        THEN [result |-> [allowed |-> FALSE,
                          retryAfterSeconds |->
                              Max(1, CeilSeconds(Max(0,
                                  PORTAL_CHAT_RATE_LIMIT_WINDOW_MS
                                      - (t - windowStart))))],
              state  |-> state]
        ELSE IF env.write = "throws"
        THEN [result |-> OnStorageFailure, state |-> state]
        ELSE [result |-> RateAllowed,
              state  |-> StoredWindow(windowStart, count + 1)]

\* ---- bounds of the rate-limiter runs ----
StartTime == 1000
TicksPerWindow == 2
MaxTicks == 2
ExtraCalls == 1
MaxOtherCalls == 1
MaxFaults == 1

TickMs == PORTAL_CHAT_RATE_LIMIT_WINDOW_MS \div TicksPerWindow

RateEnvs == [read : ReadOutcomes, write : ReadOutcomes]
WorkingStorage == [read |-> "ok", write |-> "ok"]

\* Calls a requester may make in one window of a run.
CallBudget(r) ==
    IF r = "acct-1" THEN PORTAL_CHAT_RATE_LIMIT_MAX_REQUESTS + ExtraCalls
    ELSE MaxOtherCalls

\* History of a requester's calls, kept beside the code's state: the start
\* of the current 60 s window reckoned from the calls themselves, the number
\* of calls made in it, and the number of calls that met a storage failure.
NoHistory == [windowStart |-> 0, calls |-> 0, faults |-> 0]

HistoryAfterCall(h, t, env) ==
    LET fresh == h.windowStart = 0
                 \/ t - h.windowStart >= PORTAL_CHAT_RATE_LIMIT_WINDOW_MS
        fault == IF env = WorkingStorage THEN 0 ELSE 1
    IN  [windowStart |-> IF fresh THEN t ELSE h.windowStart,
         calls       |-> IF fresh THEN 1 ELSE h.calls + 1,
         faults      |-> h.faults + fault]

NoRlCall == [done |-> FALSE]

\* One call of checkPortalChatRateLimit by requester r.
CheckPortalChatRateLimit(r, env) ==
    LET fresh == rlHistory[r].windowStart = 0
                 \/ now - rlHistory[r].windowStart >= PORTAL_CHAT_RATE_LIMIT_WINDOW_MS
        out == checkPortalChatRateLimit(rateState[r], now, env)
    IN  /\ fresh \/ rlHistory[r].calls < CallBudget(r)
        /\ env = WorkingStorage \/ rlHistory[r].faults < MaxFaults
        /\ rateState' = [rateState EXCEPT ![r] = out.state]
        /\ rlHistory' = [rlHistory EXCEPT ![r] = HistoryAfterCall(@, now, env)]
        /\ rlCall' = [done |-> TRUE, requester |-> r, at |-> now, env |-> env,
                      before |-> rateState[r], result |-> out.result]
        /\ UNCHANGED <<now, storageVars, availVars, createVars, flowVars, llmVars,
                 entryVars,
                   sessionVars, raceVars,
                   fnVars>>

\* Time passes.
Tick ==
    /\ now + TickMs <= StartTime + MaxTicks * TickMs
    /\ now' = now + TickMs
    /\ UNCHANGED <<rateState, rlCall, rlHistory, storageVars, availVars,
                   createVars, flowVars, llmVars,
                 entryVars,
                   sessionVars, raceVars,
                   fnVars>>

\* ---- checkPortalChatRateLimit as two storage operations ----
\* Sessions of one requester whose calls run at the same time.
Sessions == {"s1", "s2"}
SharedRequester == "anonymous"

MaxOverlaps == 2

\* A call between its storage.get and its storage.set: the state it read
\* and its Date.now().
NoRead == [reading |-> FALSE, state |-> NoWindow, at |-> 0]
ReadAt(state, t) == [reading |-> TRUE, state |-> state, at |-> t]

InFlightCalls == {s \in Sessions : rlInFlight[s].reading}

\* Beside the code's state: the calls admitted, by the start of the window
\* each of them counted itself in, and the pairs of calls that overlapped.
WindowStarts == {StartTime + i * TickMs : i \in 0..MaxTicks}
NoRace == [admitted |-> [w \in {} |-> 0], pairs |-> 0]
AdmittedIn(w) == IF w \in DOMAIN rlRace.admitted THEN rlRace.admitted[w] ELSE 0

\* const now = Date.now(); const existingState = await storage.get(key)
RateRead(s) ==
    /\ ~rlInFlight[s].reading
    /\ rlRace.pairs + Cardinality(InFlightCalls) <= MaxOverlaps
    /\ AdmittedIn(rateState[SharedRequester].windowStart)
           < PORTAL_CHAT_RATE_LIMIT_MAX_REQUESTS + MaxOverlaps + ExtraCalls
    /\ rlInFlight' = [rlInFlight EXCEPT ![s] = ReadAt(rateState[SharedRequester], now)]
    /\ rlRace' = [rlRace EXCEPT !.pairs = @ + Cardinality(InFlightCalls)]
    /\ UNCHANGED <<rateState, now, rlCall, rlHistory, storageVars, availVars,
                   createVars, flowVars, llmVars, entryVars, sessionVars,
                   fnVars>>

\* The rest of the call: the decision on what was read, and the
\* storage.set when the request is admitted.
RateWrite(s) ==
    LET read == rlInFlight[s]
        out == checkPortalChatRateLimit(read.state, read.at, WorkingStorage)
        w == out.state.windowStart
    IN  /\ read.reading
        /\ rlInFlight' = [rlInFlight EXCEPT ![s] = NoRead]
        /\ rateState' = IF out.result.allowed
                        THEN [rateState EXCEPT ![SharedRequester] = out.state]
                        ELSE rateState
        /\ rlRace' = IF out.result.allowed
                     THEN [rlRace EXCEPT !.admitted =
                              [v \in DOMAIN @ \cup {w} |->
                                  IF v = w THEN AdmittedIn(w) + 1 ELSE @[v]]]
                     ELSE rlRace
        /\ rlCall' = [done |-> TRUE, requester |-> SharedRequester, at |-> read.at,
                      env |-> WorkingStorage, before |-> read.state,
                      result |-> out.result]
        /\ UNCHANGED <<now, rlHistory, storageVars, availVars, createVars,
                       flowVars, llmVars, entryVars, sessionVars, fnVars>>

-----------------------------------------------------------------------------
(***************************************************************************)
(* JavaScript values that travel as field answers and request values.      *)
(*   undefined/null   UNDEFINED                                            *)
(*   string           [t |-> "str", s |-> ...]                             *)
(*   number           [t |-> "num", n |-> ...]                             *)
(*   option object    [t |-> "obj", accountId, id, value, name, label]     *)
(*                    (NULL for a property the object does not have)       *)
(*   array            [t |-> "arr", items |-> <<...>>]                     *)
(***************************************************************************)
UNDEFINED == [t |-> "undef"]
Str(s) == [t |-> "str", s |-> s]
Num(n) == [t |-> "num", n |-> n]
Arr(items) == [t |-> "arr", items |-> items]
Obj(accountId, id, value, name, label) ==
    [t |-> "obj", accountId |-> accountId, id |-> id, value |-> value,
     name |-> name, label |-> label]

\* A one-property object { key: val }
Single(key, val) == [t |-> "single", key |-> key, val |-> val]

RECURSIVE DecimalString(_)
\* String(n) for an integer n >= 0
DecimalString(n) ==
    LET digit == CASE n % 10 = 0 -> "0" [] n % 10 = 1 -> "1" [] n % 10 = 2 -> "2"
                   [] n % 10 = 3 -> "3" [] n % 10 = 4 -> "4" [] n % 10 = 5 -> "5"
                   [] n % 10 = 6 -> "6" [] n % 10 = 7 -> "7" [] n % 10 = 8 -> "8"
                   [] OTHER -> "9"
    IN  IF n < 10 THEN digit ELSE DecimalString(n \div 10) \o digit

\* Number(text) is finite, for the texts of the model: an optional sign and
\* decimal digits.
IsNumericText(text) ==
    LET body == IF Len(text) > 0 /\ ChAt(text, 1) \in {"-", "+"}
                THEN SubSeq(text, 2, Len(text)) ELSE text
    IN  AllDigits(body)

NumericValue(text) ==
    IF ChAt(text, 1) = "-" THEN 0 - DecimalValue(SubSeq(text, 2, Len(text)))
    ELSE IF ChAt(text, 1) = "+" THEN DecimalValue(SubSeq(text, 2, Len(text)))
    ELSE DecimalValue(text)

\* a property is neither undefined, null nor ""
Present(x) == x # NULL /\ x # ""

\* A variant that prefers id to accountId.
normalizeOptionPayloadIdFirst(option) ==
    IF option.t # "obj" THEN option
    ELSE IF Present(option.id) THEN Single("id", option.id)
    ELSE IF Present(option.accountId) THEN Single("accountId", option.accountId)
    ELSE IF Present(option.value) THEN Single("value", option.value)
    ELSE IF Present(option.name) THEN Single("name", option.name)
    ELSE IF Present(option.label) THEN Single("value", option.label)
    ELSE option

\* normalizeOptionPayload (src/src/index.js 388-408)
normalizeOptionPayload(option) ==
    IF option.t # "obj" THEN option
    ELSE IF Present(option.accountId) THEN Single("accountId", option.accountId)
    ELSE IF Present(option.id) THEN Single("id", option.id)
    ELSE IF Present(option.value) THEN Single("value", option.value)
    ELSE IF Present(option.name) THEN Single("name", option.name)
    ELSE IF Present(option.label) THEN Single("value", option.label)
    ELSE option

\* String(x || "").trim().toLowerCase() of an option property
OptionToken(x) == IF x = NULL THEN "" ELSE ToLowerCase(Trim(x))

\* the predicate of validValues.find in matchValidValueOption
OptionMatches(option, index, normalizedAnswer) ==
    \/ normalizedAnswer = OptionToken(option.label)
    \/ normalizedAnswer = OptionToken(option.id)
    \/ normalizedAnswer = OptionToken(option.value)
    \/ normalizedAnswer = DecimalString(index)

\* matchValidValueOption (src/src/index.js 410-430): the 1-based position of
\* the first matching option, 0 for null.
matchValidValueOption(validValues, answerText) ==
    LET normalizedAnswer == ToLowerCase(Trim(answerText))
        hits == {i \in 1..Len(validValues) :
                    OptionMatches(validValues[i], i, normalizedAnswer)}
    IN  IF normalizedAnswer = "" \/ hits = {} THEN 0
        ELSE CHOOSE i \in hits : \A j \in hits : i <= j

RECURSIVE SplitComma(_)
\* text.split(",")
SplitComma(text) ==
    LET commas == {i \in 1..Len(text) : ChAt(text, i) = ","}
    IN  IF commas = {} THEN <<text>>
        ELSE LET c == CHOOSE i \in commas : \A j \in commas : i <= j
             IN  <<SubSeq(text, 1, c - 1)>> \o SplitComma(SubSeq(text, c + 1, Len(text)))

\* The element of a singleton set: Once({F(x) : x \in {e}}) is F(e) with e
\* computed a single time.
Once(S) == CHOOSE v \in S : TRUE

SeqFilter(seq, Keep(_)) ==
    LET F[i \in 0..Len(seq)] ==
            IF i = 0 THEN <<>>
            ELSE IF Keep(seq[i]) THEN Append(F[i - 1], seq[i]) ELSE F[i - 1]
    IN  F[Len(seq)]

SeqMap(seq, Op(_)) == [i \in 1..Len(seq) |-> Op(seq[i])]

\* String(answer) of a scalar answer
ScalarText(answer) ==
    IF answer.t = "num"
    THEN (IF answer.n < 0 THEN "-" \o DecimalString(0 - answer.n)
          ELSE DecimalString(answer.n))
    ELSE answer.s

\* convertFieldAnswerToRequestValue (src/src/index.js 432-479)
convertFieldAnswerToRequestValue(field, answer) ==
    IF answer.t = "undef" THEN UNDEFINED
    ELSE IF answer.t = "arr"
    THEN Arr(SeqFilter(SeqMap(answer.items, normalizeOptionPayload),
                       LAMBDA item : item.t # "undef"))
    ELSE IF answer.t = "obj"
    THEN LET normalizedObject == normalizeOptionPayload(answer)
         IN  IF field.schemaType = "array" THEN Arr(<<normalizedObject>>)
             ELSE normalizedObject
    ELSE LET normalizedAnswer == Trim(ScalarText(answer))
             matched == IF Len(field.validValues) > 0
                        THEN matchValidValueOption(field.validValues, normalizedAnswer)
                        ELSE 0
         IN  IF normalizedAnswer = "" THEN UNDEFINED
             ELSE IF matched # 0
             THEN LET normalizedOption ==
                          normalizeOptionPayload(field.validValues[matched])
                  IN  IF field.schemaType = "array" THEN Arr(<<normalizedOption>>)
                      ELSE normalizedOption
             ELSE IF field.schemaType = "number"
             THEN (IF IsNumericText(normalizedAnswer)
                   THEN Num(NumericValue(normalizedAnswer))
                   ELSE Str(normalizedAnswer))
             ELSE IF field.schemaType = "array"
             THEN Arr(SeqMap(SeqFilter(SeqMap(SplitComma(normalizedAnswer), Trim),
                                       LAMBDA v : v # ""),
                             Str))
             ELSE Str(normalizedAnswer)

-----------------------------------------------------------------------------
(***************************************************************************)
(* LLM settings (src/src/index.js 5-8, 481-574, 1132-1139).                *)
(***************************************************************************)

\* DEFAULT_LLM_SETTINGS.provider and the providers accepted
DEFAULT_LLM_PROVIDER == "openai"
LlmProviders == {"openai", "claude"}

RECURSIVE Stars(_)
\* "*".repeat(Math.max(0, n))
Stars(n) == IF n <= 0 THEN "" ELSE "*" \o Stars(n - 1)

\* s.slice(0, n) and s.slice(-n)
SliceHead(s, n) == SubSeq(s, 1, IF Len(s) < n THEN Len(s) ELSE n)
SliceTail(s, n) == SubSeq(s, IF Len(s) < n THEN 1 ELSE Len(s) - n + 1, Len(s))

\* maskApiKey
maskApiKey(apiKey) ==
    LET normalized == IF apiKey = NULL THEN "" ELSE Trim(apiKey)
    IN  IF normalized = "" THEN ""
        ELSE IF Len(normalized) <= 8
        THEN SliceHead(normalized, 2) \o Stars(Len(normalized) - 2)
        ELSE SliceHead(normalized, 4) \o "..." \o SliceTail(normalized, 4)

\* The record stored under "llmSettings"; NULL for a property it lacks.
\* Nothing stored reads as {}.
LlmRecord(provider, model, apiKey) ==
    [provider |-> provider, model |-> model, apiKey |-> apiKey]
NoLlmSettings == LlmRecord(NULL, NULL, NULL)

\* The storage a handler works on: the stored record, the stored secret,
\* the number of storage operations made so far, and whether one threw.
LlmStore(settings, secret) ==
    [settings |-> settings, secret |-> secret, n |-> 0, threw |-> FALSE]

\* The next storage operation is the one that fails (failAt = 0: none does).
Fails(st, failAt) == st.n + 1 = failAt

\* One storage operation: it throws, or it leaves the given record and secret.
StorageOp(st, failAt, settings, secret) ==
    IF st.threw THEN st
    ELSE IF Fails(st, failAt) THEN [st EXCEPT !.n = @ + 1, !.threw = TRUE]
    ELSE [settings |-> settings, secret |-> secret, n |-> st.n + 1,
          threw |-> FALSE]

StorageRead(st, failAt) == StorageOp(st, failAt, st.settings, st.secret)

\* typeof x === "string" ? x.trim() : ""
TrimmedOrEmpty(x) == IF x = NULL THEN "" ELSE Trim(x)

\* The key copied to the secret storage, the record left as it was.
migrateKeepingRecord(st, failAt) ==
    LET legacyApiKey == TrimmedOrEmpty(st.settings.apiKey)
        Move(read) ==
            IF read.threw \/ legacyApiKey = "" THEN read
            ELSE StorageRead(StorageOp(read, failAt, read.settings, legacyApiKey),
                             failAt)
    IN  Once({Move(read) : read \in {StorageRead(st, failAt)}})

\* migrateLegacyLlmApiKeyIfNeeded
migrateLegacyLlmApiKeyIfNeeded(st, failAt) ==
    LET legacyApiKey == TrimmedOrEmpty(st.settings.apiKey)
        Move(read) ==
            IF read.threw \/ legacyApiKey = "" THEN read
            ELSE Once({StorageOp(secretSet, failAt,
                                 [secretSet.settings EXCEPT !.apiKey = NULL],
                                 secretSet.secret) :
                       secretSet \in {StorageOp(read, failAt, read.settings,
                                                legacyApiKey)}})
    IN  Once({Move(read) : read \in {StorageRead(st, failAt)}})

\* getLlmRuntimeSettings: the storage afterwards and { provider, model, apiKey }
getLlmRuntimeSettings(st, failAt) ==
    LET Read(after) ==
            [st |-> after,
             provider |-> IF after.settings.provider \in LlmProviders
                          THEN after.settings.provider ELSE DEFAULT_LLM_PROVIDER,
             model |-> IF after.settings.model = NULL THEN ""
                       ELSE after.settings.model,
             apiKey |-> TrimmedOrEmpty(after.secret)]
    IN  Once({Read(after) :
              after \in {StorageRead(StorageRead(
                            migrateLegacyLlmApiKeyIfNeeded(st, failAt), failAt),
                            failAt)}})

\* What getLLMSettings / saveLLMSettings hand back; NULL for a property the
\* result lacks.  kind "threw": the resolver's promise rejects.
LlmResult(kind, error, provider, model, apiKey, apiKeyMasked, hasApiKey) ==
    [kind |-> kind, error |-> error, provider |-> provider, model |-> model,
     apiKey |-> apiKey, apiKeyMasked |-> apiKeyMasked, hasApiKey |-> hasApiKey]
LlmThrew == LlmResult("threw", "", NULL, NULL, NULL, NULL, FALSE)
LlmError(error) == LlmResult("returned", error, NULL, NULL, NULL, NULL, FALSE)

LlmOutcome(result, st) ==
    [result |-> result, settings |-> st.settings, secret |-> st.secret]

\* getLlmSettingsForAdmin
getLlmSettingsForAdmin(st, failAt) ==
    LET Answer(runtimeSettings) ==
            IF runtimeSettings.st.threw THEN LlmOutcome(LlmThrew, runtimeSettings.st)
            ELSE LlmOutcome(
                     LlmResult("returned", "", runtimeSettings.provider,
                               runtimeSettings.model,
                               maskApiKey(runtimeSettings.apiKey),
                               maskApiKey(runtimeSettings.apiKey),
                               runtimeSettings.apiKey # ""),
                     runtimeSettings.st)
    IN  Once({Answer(r) : r \in {getLlmRuntimeSettings(st, failAt)}})

\* A variant that keeps the stored key only when no key is handed in.
saveLlmSettingsIgnoringMask(payload, st, failAt) ==
    LET submittedApiKey == TrimmedOrEmpty(payload.apiKey)
        Save(runtimeSettings) ==
            LET shouldKeepExistingApiKey ==
                    runtimeSettings.apiKey # "" /\ submittedApiKey = ""
                nextApiKey == IF shouldKeepExistingApiKey
                              THEN runtimeSettings.apiKey ELSE submittedApiKey
                Write(settingsSet) ==
                    IF shouldKeepExistingApiKey THEN settingsSet
                    ELSE StorageOp(settingsSet, failAt, settingsSet.settings,
                                   nextApiKey)
                Finish(after) ==
                    IF after.threw THEN LlmOutcome(LlmThrew, after)
                    ELSE LlmOutcome(
                             LlmResult("returned", "", payload.provider,
                                       payload.model, NULL,
                                       maskApiKey(nextApiKey), TRUE),
                             after)
            IN  IF runtimeSettings.st.threw
                THEN LlmOutcome(LlmThrew, runtimeSettings.st)
                ELSE IF nextApiKey = ""
                THEN LlmOutcome(LlmError("api_key_required"), runtimeSettings.st)
                ELSE Once({Finish(after) :
                           after \in {Write(StorageOp(
                               runtimeSettings.st, failAt,
                               LlmRecord(payload.provider, payload.model, NULL),
                               runtimeSettings.st.secret))}})
    IN  IF payload.provider \notin LlmProviders
        THEN LlmOutcome(LlmError("invalid_provider"), st)
        ELSE IF payload.model = NULL \/ payload.model = ""
        THEN LlmOutcome(LlmError("model_required"), st)
        ELSE Once({Save(r) : r \in {getLlmRuntimeSettings(st, failAt)}})

\* saveLlmSettingsSecurely
saveLlmSettingsSecurely(payload, st, failAt) ==
    LET submittedApiKey == TrimmedOrEmpty(payload.apiKey)
        Save(runtimeSettings) ==
            LET shouldKeepExistingApiKey ==
                    /\ runtimeSettings.apiKey # ""
                    /\ (submittedApiKey = ""
                        \/ submittedApiKey = maskApiKey(runtimeSettings.apiKey))
                nextApiKey == IF shouldKeepExistingApiKey
                              THEN runtimeSettings.apiKey ELSE submittedApiKey
                Write(settingsSet) ==
                    IF shouldKeepExistingApiKey THEN settingsSet
                    ELSE StorageOp(settingsSet, failAt, settingsSet.settings,
                                   nextApiKey)
                Finish(after) ==
                    IF after.threw THEN LlmOutcome(LlmThrew, after)
                    ELSE LlmOutcome(
                             LlmResult("returned", "", payload.provider,
                                       payload.model, NULL,
                                       maskApiKey(nextApiKey), TRUE),
                             after)
            IN  IF runtimeSettings.st.threw
                THEN LlmOutcome(LlmThrew, runtimeSettings.st)
                ELSE IF nextApiKey = ""
                THEN LlmOutcome(LlmError("api_key_required"), runtimeSettings.st)
                ELSE Once({Finish(after) :
                           after \in {Write(StorageOp(
                               runtimeSettings.st, failAt,
                               LlmRecord(payload.provider, payload.model, NULL),
                               runtimeSettings.st.secret))}})
    IN  IF payload.provider \notin LlmProviders
        THEN LlmOutcome(LlmError("invalid_provider"), st)
        ELSE IF payload.model = NULL \/ payload.model = ""
        THEN LlmOutcome(LlmError("model_required"), st)
        ELSE Once({Save(r) : r \in {getLlmRuntimeSettings(st, failAt)}})

\* ---- inputs of the LLM settings runs ----
LlmPayloads ==
    [provider : {"openai", "claude", "bard"}, model : {"gpt-4o", ""},
     apiKey : {NULL, " ab ", "sk-12345678", "sk-1...5678"}]

\* Which storage operation of a handler fails, 0 for none: a save makes at
\* most seven.
LlmFailAts == 0..7

\* Records an earlier release left behind, with the key in the record.
LegacyLlmRecords ==
    {LlmRecord("claude", NULL, " sk-12345678 "), LlmRecord("bard", "gpt-4o", "  ")}

NoLlmCall == [done |-> FALSE]

LlmCall(op, payload, failAt, out) ==
    [done |-> TRUE, op |-> op, payload |-> payload, failAt |-> failAt,
     before |-> [settings |-> llmSettings, secret |-> llmSecret],
     result |-> out.result]

ApplyLlm(op, payload, failAt, out) ==
    /\ llmSettings' = out.settings
    /\ llmSecret' = out.secret
    /\ llmCall' = LlmCall(op, payload, failAt, out)
    /\ UNCHANGED <<storageVars, availVars, rateVars, createVars, flowVars,
                   entryVars,
                   sessionVars, raceVars,
                   fnVars>>

\* resolver "getLLMSettings"
GetLLMSettings(failAt) ==
    ApplyLlm("get", NoLlmSettings, failAt,
             getLlmSettingsForAdmin(LlmStore(llmSettings, llmSecret), failAt))

\* resolver "saveLLMSettings"
SaveLLMSettings(payload, failAt) ==
    ApplyLlm("save", payload, failAt,
             saveLlmSettingsSecurely(payload, LlmStore(llmSettings, llmSecret),
                                     failAt))

\* The app is upgraded from a release that kept the key in "llmSettings".
UpgradeFromLegacy(record) ==
    /\ llmSettings = NoLlmSettings /\ llmSecret = NULL /\ ~llmCall.done
    /\ llmSettings' = record
    /\ UNCHANGED <<llmSecret, llmCall, storageVars, availVars, rateVars,
                   createVars, flowVars, entryVars,
                   sessionVars, raceVars,
                   fnVars>>

-----------------------------------------------------------------------------
(***************************************************************************)
(* Allowed service desks (src/src/index.js 140-257).                       *)
(***************************************************************************)

\* A raw service desk of the Jira listing; NULL for a missing property.
RawDesk(id, projectId, projectKey, projectName, name) ==
    [id |-> id, projectId |-> projectId, projectKey |-> projectKey,
     projectName |-> projectName, name |-> name]

OrElse(x, y) == IF x # NULL /\ x # "" THEN x ELSE y

\* mapServiceDeskSummary
mapServiceDeskSummary(serviceDesk) ==
    [serviceDeskId |-> OrElse(serviceDesk.id, ""),
     projectId     |-> normalizeProjectId(OrElse(serviceDesk.projectId, NULL)),
     projectKey    |-> OrElse(serviceDesk.projectKey, ""),
     projectName   |-> OrElse(serviceDesk.projectName,
                              OrElse(serviceDesk.name, "Service project")),
     portalName    |-> OrElse(serviceDesk.name,
                              OrElse(serviceDesk.projectName, "Customer portal"))]

\* The outcome of fetchAccessibleServiceDesksAsUser: { error } or { values }.
DesksError == [kind |-> "error", values |-> <<>>]
DesksOk(values) == [kind |-> "ok", values |-> values]

\* A variant that offers the enabled desks of every project, whatever project
\* the context resolves to.
DeskAllowedAnyProject(desk, projectSettings, restrictProjectId) ==
    /\ desk.serviceDeskId # "" /\ desk.projectId # NULL
    /\ ProjectEnabled(projectSettings, desk.projectId)

\* The three filters of getAllowedPortalServiceDesks on a mapped desk.
DeskAllowed(desk, projectSettings, restrictProjectId) ==
    /\ desk.serviceDeskId # "" /\ desk.projectId # NULL
    /\ ProjectEnabled(projectSettings, desk.projectId)
    /\ (restrictProjectId # NULL => desk.projectId = restrictProjectId)

\* getAllowedPortalServiceDesks.  env.av: the inputs of the availability
\* check; env.desks: the outcome of the service-desk listing;
\* env.settingsRead: whether the read of projectChatSettings succeeds.
getAllowedPortalServiceDesks(ctx, env, agent, projectSettings) ==
    LET Listing(availability) ==
            LET restrictProjectId == availability.projectId
                Usable(desk) == DeskAllowed(desk, projectSettings, restrictProjectId)
            IN  IF availability.kind = "threw"
                THEN [kind |-> "threw", error |-> "", serviceDesks |-> <<>>]
                ELSE IF ~availability.enabled
                THEN [kind |-> "error", error |-> "assistant_disabled",
                      serviceDesks |-> <<>>]
                ELSE IF env.desks.kind = "error"
                THEN [kind |-> "error", error |-> "service_desks_failed",
                      serviceDesks |-> <<>>]
                ELSE IF env.settingsRead = "throws"
                THEN [kind |-> "threw", error |-> "", serviceDesks |-> <<>>]
                ELSE [kind |-> "ok", error |-> "",
                      serviceDesks |->
                          Once({SeqFilter(mapped, Usable) :
                                mapped \in {SeqMap(env.desks.values,
                                                   mapServiceDeskSummary)}})]
    IN  Once({Listing(availability) :
              availability \in {getPortalChatAvailability(ctx, env.av, agent,
                                                          projectSettings)}})

NoDesk == mapServiceDeskSummary(RawDesk(NULL, NULL, NULL, NULL, NULL))

\* ensureAllowedServiceDesk
ensureAllowedServiceDesk(serviceDeskId, ctx, env, agent, projectSettings) ==
    LET normalizedServiceDeskId ==
            IF serviceDeskId = NULL THEN "" ELSE Trim(serviceDeskId)
        Find(allowed) ==
            LET hits == {i \in 1..Len(allowed.serviceDesks) :
                            allowed.serviceDesks[i].serviceDeskId
                                = normalizedServiceDeskId}
            IN  IF allowed.kind = "threw"
                THEN [kind |-> "threw", error |-> "", serviceDesk |-> NoDesk]
                ELSE IF allowed.kind = "error"
                THEN [kind |-> "error", error |-> allowed.error, serviceDesk |-> NoDesk]
                ELSE IF hits = {}
                THEN [kind |-> "error", error |-> "project_unavailable",
                      serviceDesk |-> NoDesk]
                ELSE [kind |-> "ok", error |-> "",
                      serviceDesk |->
                          allowed.serviceDesks[CHOOSE i \in hits :
                                                  \A j \in hits : i <= j]]
    IN  IF normalizedServiceDeskId = ""
        THEN [kind |-> "error", error |-> "service_desk_required", serviceDesk |-> NoDesk]
        ELSE Once({Find(allowed) :
                   allowed \in {getAllowedPortalServiceDesks(ctx, env, agent,
                                                             projectSettings)}})

-----------------------------------------------------------------------------
(***************************************************************************)
(* createPortalRequest (src/src/index.js 901-1128).                        *)
(***************************************************************************)

\* A raw request-type field of the Jira listing.  visible is false only when
\* the listing says visible: false.
RawField(fieldId, name, required, visible, schemaType, validValues) ==
    [fieldId |-> fieldId, name |-> name, required |-> required,
     visible |-> visible, schemaType |-> schemaType, validValues |-> validValues]

\* The outcome of fetchRequestTypeFields: { error } or { values }.
FieldsError == [kind |-> "error", values |-> <<>>]
FieldsOk(values) == [kind |-> "ok", values |-> values]

\* A raw request type of the Jira listing, and the outcome of
\* fetchRequestTypesForServiceDesk: { error } or { values }.
RawRequestType(id, name) == [id |-> id, name |-> name]
RequestTypesError == [kind |-> "error", values |-> <<>>]
RequestTypesOk(values) == [kind |-> "ok", values |-> values]

\* The outcome of one POST /rest/servicedeskapi/request: the response is ok
\* (its body carries issueKey / issueId, NULL when it has none), the response
\* is not ok, or the call throws.  created: whether Jira created a ticket (a
\* call that throws may or may not have).
CreateOk(issueKey, issueId) ==
    [kind |-> "ok", issueKey |-> issueKey, issueId |-> issueId, created |-> TRUE]
CreateNotOk ==
    [kind |-> "not_ok", issueKey |-> NULL, issueId |-> NULL, created |-> FALSE]
CreateThrows(created) ==
    [kind |-> "throws", issueKey |-> NULL, issueId |-> NULL, created |-> created]

\* payload.temporaryAttachmentIds: map(String(v || "").trim()).filter(Boolean)
normalizeAttachmentIds(ids) ==
    SeqFilter(SeqMap(ids, LAMBDA v : IF v = NULL THEN "" ELSE Trim(v)),
              LAMBDA v : v # "")

\* converted === undefined || (Array.isArray(converted) && converted.length === 0)
IsMissing(converted) ==
    converted.t = "undef" \/ (converted.t = "arr" /\ Len(converted.items) = 0)

\* The Jira calls of the submission part, in order.
CreateCall(values, ids, outcome) ==
    [call |-> "create", requestFieldValues |-> values, attachments |-> ids,
     issue |-> "", outcome |-> outcome.kind, created |-> outcome.created]
AttachCall(issue, ids, outcome) ==
    [call |-> "attach", requestFieldValues |-> <<>>, attachments |-> ids,
     issue |-> issue, outcome |-> outcome, created |-> FALSE]

CrResult(kind, error, issueKey, issueId, warning, calls) ==
    [kind |-> kind, error |-> error, issueKey |-> issueKey, issueId |-> issueId,
     warning |-> warning, calls |-> calls]

CrError(error, calls) == CrResult("error", error, "", "", "", calls)
CrThrew == CrResult("threw", "", "", "", "", <<>>)

\* A variant that retries whether or not attachment ids were sent.
ShouldRetryAlways(first, attachmentIdsForPayload) == first.kind # "ok"

\* if (!finalAttempt.ok && attachmentIdsForPayload.length > 0): retry without
\* the attachment ids
ShouldRetry(first, attachmentIdsForPayload) ==
    first.kind # "ok" /\ Len(attachmentIdsForPayload) > 0

\* createdWithoutAttachmentPayload && attachmentIdsForPayload.length > 0 &&
\* createdIssueIdOrKey
ShouldAttach(createdWithoutAttachmentPayload, attachmentIdsForPayload, issue) ==
    /\ createdWithoutAttachmentPayload
    /\ Len(attachmentIdsForPayload) > 0
    /\ issue # ""

\* A variant that drops the warning of a failed attach call.
WarningAfterAttachSilent(outcome) == ""

\* The warning left by the post-creation attach call.
WarningAfterAttach(outcome) ==
    IF outcome = "ok" THEN "" ELSE "attachments_not_added"

\* Lines 975-1127: the create call, its retry and the post-creation attach.
\* env.create1 / env.create2: outcomes of the first call and of the retry;
\* env.attach: "ok", "not_ok" or "throws".
submitRequest(requestFieldValues, attachmentIdsForPayload, env) ==
    LET first == env.create1
        call1 == CreateCall(requestFieldValues, attachmentIdsForPayload, first)
        retry == first.kind # "throws"
                 /\ ShouldRetry(first, attachmentIdsForPayload)
        second == env.create2
        call2 == CreateCall(requestFieldValues, <<>>, second)
        createdWithoutAttachmentPayload == retry /\ second.kind = "ok"
        finalAttempt == IF createdWithoutAttachmentPayload THEN second ELSE first
        issueKey == OrElse(finalAttempt.issueKey, "")
        issueId  == OrElse(finalAttempt.issueId, "")
        createdIssueIdOrKey == OrElse(issueKey, issueId)
        attach == ShouldAttach(createdWithoutAttachmentPayload,
                               attachmentIdsForPayload, createdIssueIdOrKey)
        call3 == AttachCall(createdIssueIdOrKey, attachmentIdsForPayload, env.attach)
        createCalls == IF retry THEN <<call1, call2>> ELSE <<call1>>
    IN  IF first.kind = "throws"
        THEN CrError("create_failed", <<call1>>)
        ELSE IF retry /\ second.kind = "throws"
        THEN CrError("create_failed", createCalls)
        ELSE IF finalAttempt.kind # "ok"
        THEN CrError("create_failed", createCalls)
        ELSE IF attach
        THEN CrResult("success", "", issueKey, issueId,
                      WarningAfterAttach(env.attach), Append(createCalls, call3))
        ELSE CrResult("success", "", issueKey, issueId,
                      IF createdWithoutAttachmentPayload
                      THEN "attachments_not_accepted" ELSE "",
                      createCalls)

\* resolver "createPortalRequest".  payload: serviceDeskId, requestTypeId,
\* fieldAnswers (a function from field ids to answers), temporaryAttachmentIds
\* and the portal context ctx.
createPortalRequest(payload, env, agent, projectSettings) ==
    LET requestTypeId ==
            IF payload.requestTypeId = NULL THEN "" ELSE Trim(payload.requestTypeId)
        fieldResult == env.fields
        fieldAnswers == payload.fieldAnswers
        AnswerOf(fieldId) ==
            IF fieldId \in DOMAIN fieldAnswers THEN fieldAnswers[fieldId]
            ELSE UNDEFINED
        Build(visibleFields) ==
            LET allowsAttachments ==
                    \E i \in 1..Len(visibleFields) :
                        visibleFields[i].fieldId = "attachment"
                missingFields ==
                    {i \in 1..Len(visibleFields) :
                        /\ visibleFields[i].required
                        /\ visibleFields[i].fieldId # "attachment"
                        /\ IsMissing(convertFieldAnswerToRequestValue(
                               visibleFields[i],
                               AnswerOf(visibleFields[i].fieldId)))}
                FirstVisible(fieldId) ==
                    visibleFields[CHOOSE i \in 1..Len(visibleFields) :
                        /\ visibleFields[i].fieldId = fieldId
                        /\ \A j \in 1..(i - 1) : visibleFields[j].fieldId # fieldId]
                converted ==
                    [fieldId \in {f \in DOMAIN fieldAnswers :
                                    /\ f # "attachment"
                                    /\ \E i \in 1..Len(visibleFields) :
                                          visibleFields[i].fieldId = f}
                        |-> convertFieldAnswerToRequestValue(FirstVisible(fieldId),
                                                             fieldAnswers[fieldId])]
                attachmentIdsForPayload ==
                    IF allowsAttachments
                    THEN normalizeAttachmentIds(payload.temporaryAttachmentIds)
                    ELSE <<>>
            IN  IF missingFields # {} THEN CrError("missing_fields", <<>>)
                ELSE Once({submitRequest(
                               [fieldId \in {f \in DOMAIN values :
                                                ~IsMissing(values[f])}
                                   |-> values[fieldId]], ids, env) :
                           values \in {converted}, ids \in {attachmentIdsForPayload}})
        Proceed(allowedServiceDesk) ==
            IF allowedServiceDesk.kind = "threw" THEN CrThrew
            ELSE IF allowedServiceDesk.kind = "error"
            THEN CrError(allowedServiceDesk.error, <<>>)
            ELSE IF fieldResult.kind = "error" THEN CrError("fields_failed", <<>>)
            ELSE Once({Build(visibleFields) :
                       visibleFields \in {SeqFilter(fieldResult.values,
                                                    LAMBDA f : f.visible)}})
    IN  IF requestTypeId = "" THEN CrError("request_type_required", <<>>)
        ELSE Once({Proceed(allowedServiceDesk) :
                   allowedServiceDesk \in
                       {ensureAllowedServiceDesk(payload.serviceDeskId, payload.ctx,
                                                 env, agent, projectSettings)}})

\* ---- inputs of the createPortalRequest runs ----
DeskIT == RawDesk("1", "10", "IT", "IT Help", "IT Portal")
DeskHR == RawDesk("2", "20", "HR", "HR Desk", NULL)

OptLow  == Obj(NULL, "101", "low", NULL, "Low")
OptHigh == Obj(NULL, "102", NULL, NULL, "High")

FieldSummary  == RawField("summary", "Summary", TRUE, TRUE, "string", <<>>)
FieldPriority == RawField("priority", "Priority", TRUE, TRUE, "priority",
                          <<OptLow, OptHigh>>)
FieldCount    == RawField("customfield_1", "Seats", TRUE, TRUE, "number", <<>>)
FieldHidden   == RawField("customfield_2", "Internal", TRUE, FALSE, "string", <<>>)
FieldAttach   == RawField("attachment", "Attachment", FALSE, TRUE, "array", <<>>)

NoContext == [projectId |-> NULL, portalId |-> NULL, projectKey |-> NULL]
ContextIT == [projectId |-> "10", portalId |-> NULL, projectKey |-> NULL]

NoAnswers == [fieldId \in {} |-> UNDEFINED]
SummaryAnswer == [fieldId \in {"summary"} |-> Str("Printer broken")]

MainPayload ==
    [serviceDeskId |-> "1", requestTypeId |-> "7", fieldAnswers |-> SummaryAnswer,
     temporaryAttachmentIds |-> <<"tmp-1">>, ctx |-> NoContext]

\* Payloads that reach the submission, and payloads that differ from
\* MainPayload in one part.
SubmitPayloads ==
    {[MainPayload EXCEPT !.temporaryAttachmentIds = ids] :
        ids \in {<<>>, <<"tmp-1">>, <<"tmp-1", " ", "tmp-2">>}}
OtherPayloads ==
    {[MainPayload EXCEPT !.serviceDeskId = " 2 "],
     [MainPayload EXCEPT !.serviceDeskId = NULL],
     [MainPayload EXCEPT !.requestTypeId = NULL],
     [MainPayload EXCEPT !.fieldAnswers = NoAnswers],
     [MainPayload EXCEPT !.ctx = ContextIT]}
CrPayloads == SubmitPayloads \cup OtherPayloads

WorkingAvEnv == [portal |-> LookupNotOk, key |-> LookupNotOk,
                 agentRead |-> "ok", projectRead |-> "ok"]

FirstCreateOutcomes ==
    {CreateOk("TJ-1", "1001"), CreateNotOk, CreateThrows(TRUE), CreateThrows(FALSE)}
RetryCreateOutcomes ==
    {CreateOk("TJ-2", "1002"), CreateOk(NULL, "1002"), CreateOk(NULL, NULL),
     CreateNotOk, CreateThrows(TRUE)}
AttachOutcomes == {"ok", "not_ok", "throws"}

MainEnv ==
    [av |-> WorkingAvEnv, desks |-> DesksOk(<<DeskIT, DeskHR>>),
     settingsRead |-> "ok", fields |-> FieldsOk(<<FieldSummary, FieldAttach>>),
     requestTypes |-> RequestTypesOk(<<RawRequestType("7", "Report a bug"),
                                       RawRequestType("8", NULL)>>),
     create1 |-> CreateOk("TJ-1", "1001"), create2 |-> CreateNotOk,
     attach |-> "ok"]

\* Outcomes of the submission calls, and outcomes of the calls before them.
SubmitEnvs ==
    {[MainEnv EXCEPT !.create1 = c1, !.create2 = c2, !.attach = a] :
        c1 \in FirstCreateOutcomes, c2 \in RetryCreateOutcomes, a \in AttachOutcomes}
        \cup {[MainEnv EXCEPT !.fields = FieldsOk(<<FieldSummary, FieldHidden>>),
                              !.create1 = c1] : c1 \in FirstCreateOutcomes}
OtherEnvs ==
    {MainEnv,
     [MainEnv EXCEPT !.desks = DesksError],
     [MainEnv EXCEPT !.settingsRead = "throws"],
     [MainEnv EXCEPT !.fields = FieldsError]}
CrEnvs(payload) == IF payload \in SubmitPayloads THEN SubmitEnvs \cup OtherEnvs
                   ELSE OtherEnvs

NoCrCall == [done |-> FALSE]

\* One invocation of the resolver "createPortalRequest".
CreatePortalRequest(payload, env) ==
    /\ crCall' = [done |-> TRUE, payload |-> payload, env |-> env,
                  result |-> createPortalRequest(payload, env, agentSettings,
                                                 projectChatSettings),
                  texts |-> <<>>]
    /\ UNCHANGED <<storageVars, availVars, rateVars, flowVars, llmVars,
                 entryVars,
                   sessionVars, raceVars,
                   fnVars>>

-----------------------------------------------------------------------------
(***************************************************************************)
(* Schema normalizer and getPortalRequestTypeFields                        *)
(* (src/src/index.js 303-386, 855-899).                                    *)
(***************************************************************************)

\* A variant that looks at the description field before the schema type.
inferDescriptionFirst(field) ==
    IF Len(field.validValues) > 0
    THEN (IF field.schemaType = "array" THEN "multi_select" ELSE "select")
    ELSE IF field.fieldId = "description" THEN "textarea"
    ELSE IF field.schemaType \in {"number", "date", "datetime"} THEN field.schemaType
    ELSE "text"

\* inferPortalFieldInputType
inferPortalFieldInputType(field) ==
    IF Len(field.validValues) > 0
    THEN (IF field.schemaType = "array" THEN "multi_select" ELSE "select")
    ELSE IF field.schemaType = "number" THEN "number"
    ELSE IF field.schemaType = "date" THEN "date"
    ELSE IF field.schemaType = "datetime" THEN "datetime"
    ELSE IF field.fieldId = "description" THEN "textarea"
    ELSE "text"

FirstOf(a, b) == IF a # NULL THEN a ELSE b

\* normalizeValidValueOption: the normalized option, UNDEFINED for null.
normalizeValidValueOption(option) ==
    IF option.t = "undef" THEN UNDEFINED
    ELSE IF option.t = "str" THEN Obj(NULL, NULL, option.s, NULL, option.s)
    ELSE LET label == FirstOf(option.label, FirstOf(option.name, option.value))
         IN  IF label = NULL \/ label = "" THEN UNDEFINED
             ELSE Obj(option.accountId, option.id, option.value, NULL, label)

\* The cap on normalized options: .slice(0, 100)
MaxValidValues == 100

Take(seq, n) == SubSeq(seq, 1, IF Len(seq) < n THEN Len(seq) ELSE n)

\* normalizePortalField
normalizePortalField(field) ==
    [fieldId |-> field.fieldId,
     name |-> IF field.name # "" THEN field.name
              ELSE IF field.fieldId # "" THEN field.fieldId ELSE "Field",
     required |-> field.required,
     visible |-> field.visible,
     inputType |-> inferPortalFieldInputType(field),
     validValues |->
         Take(SeqFilter(SeqMap(field.validValues, normalizeValidValueOption),
                        LAMBDA o : o.t # "undef"),
              MaxValidValues),
     schemaType |-> field.schemaType]

\* The fields and allowsAttachments of resolver "getPortalRequestTypeFields"
\* for a raw field listing (lines 886-898).
requestTypeFieldsOf(values) ==
    [fields |->
         SeqFilter(SeqMap(values, normalizePortalField),
                   LAMBDA f : f.visible /\ f.required /\ f.fieldId # "attachment"),
     allowsAttachments |->
         \E i \in 1..Len(values) :
             values[i].visible /\ values[i].fieldId = "attachment"]

-----------------------------------------------------------------------------
(***************************************************************************)
(* The portal entry points of the request-creation path                    *)
(* (src/src/index.js 785-930).                                             *)
(***************************************************************************)

\* A Jira call an entry point makes for one service desk.
DeskCall(call, serviceDeskId) == [call |-> call, serviceDeskId |-> serviceDeskId]

\* What an invocation of an entry point comes to.  kind: "returned", or
\* "threw" when the resolver's promise rejects; shape: what the returned
\* object carries; gate: what the availability check said ("none": it was not
\* reached); calls: the per-desk Jira calls made; items: the list returned.
EpResult(kind, shape, error, gate, calls, items) ==
    [kind |-> kind, shape |-> shape, error |-> error, gate |-> gate,
     calls |-> calls, items |-> items, text |-> ""]

EpThrew(gate) == EpResult("threw", "", "", gate, <<>>, <<>>)

\* if (!availability.enabled) ...: what the gate said of a policy result
GateOf(availability) ==
    IF availability.kind = "threw" THEN "threw"
    ELSE IF availability.enabled THEN "open" ELSE "closed"

\* String(x), x === null || x === undefined ? "" : String(x).trim()
TrimmedId(x) == IF x = NULL THEN "" ELSE Trim(x)

\* resolver "getPortalChatAvailability", seen as an entry point
availabilityEntry(ctx, env, agent, projectSettings) ==
    LET Answer(availability) ==
            IF availability.kind = "threw" THEN EpThrew("threw")
            ELSE EpResult("returned", "availability",
                          IF availability.reason = NULL THEN ""
                          ELSE availability.reason,
                          GateOf(availability), <<>>, <<>>)
    IN  Once({Answer(a) : a \in {getPortalChatAvailability(ctx, env.av, agent,
                                                           projectSettings)}})

\* resolver "getPortalCreateRequestProjects"
getPortalCreateRequestProjects(ctx, env, agent, projectSettings) ==
    LET gate == GateOf(getPortalChatAvailability(ctx, env.av, agent,
                                                 projectSettings))
        Answer(allowedServiceDesks) ==
            IF allowedServiceDesks.kind = "threw" THEN EpThrew(gate)
            ELSE IF allowedServiceDesks.kind = "error"
            THEN EpResult("returned", "error", allowedServiceDesks.error, gate,
                          <<>>, <<>>)
            ELSE EpResult("returned", "projects", "", gate, <<>>,
                          allowedServiceDesks.serviceDesks)
    IN  Once({Answer(a) : a \in {getAllowedPortalServiceDesks(
                                     ctx, env, agent, projectSettings)}})

\* The gate as an entry point that goes through ensureAllowedServiceDesk
\* meets it: a missing service desk id returns before the availability check.
GateThroughDesk(serviceDeskId, ctx, env, agent, projectSettings) ==
    IF TrimmedId(serviceDeskId) = "" THEN "none"
    ELSE GateOf(getPortalChatAvailability(ctx, env.av, agent, projectSettings))

\* requestType => { id: String(requestType.id || ""), name: ... }
mapRequestType(requestType) ==
    [id |-> OrElse(requestType.id, ""),
     name |-> OrElse(requestType.name, "Request type")]

\* resolver "getPortalRequestTypes"
getPortalRequestTypes(payload, env, agent, projectSettings) ==
    LET gate == GateThroughDesk(payload.serviceDeskId, payload.ctx, env, agent,
                                projectSettings)
        Answer(allowedServiceDesk) ==
            LET calls == <<DeskCall("requesttype",
                                    allowedServiceDesk.serviceDesk.serviceDeskId)>>
            IN  IF allowedServiceDesk.kind = "threw" THEN EpThrew(gate)
                ELSE IF allowedServiceDesk.kind = "error"
                THEN EpResult("returned", "error", allowedServiceDesk.error, gate,
                              <<>>, <<>>)
                ELSE IF env.requestTypes.kind = "error"
                THEN EpResult("returned", "error", "request_types_failed", gate,
                              calls, <<>>)
                ELSE EpResult("returned", "requestTypes", "", gate, calls,
                              SeqMap(env.requestTypes.values, mapRequestType))
    IN  Once({Answer(a) : a \in {ensureAllowedServiceDesk(
                                     payload.serviceDeskId, payload.ctx, env,
                                     agent, projectSettings)}})

\* resolver "getPortalRequestTypeFields"
getPortalRequestTypeFields(payload, env, agent, projectSettings) ==
    LET gate == GateThroughDesk(payload.serviceDeskId, payload.ctx, env, agent,
                                projectSettings)
        Answer(allowedServiceDesk) ==
            LET calls == <<DeskCall("field",
                                    allowedServiceDesk.serviceDesk.serviceDeskId)>>
            IN  IF allowedServiceDesk.kind = "threw" THEN EpThrew(gate)
                ELSE IF allowedServiceDesk.kind = "error"
                THEN EpResult("returned", "error", allowedServiceDesk.error, gate,
                              <<>>, <<>>)
                ELSE IF env.fields.kind = "error"
                THEN EpResult("returned", "error", "fields_failed", gate, calls,
                              <<>>)
                ELSE EpResult("returned", "fields", "", gate, calls,
                              requestTypeFieldsOf(env.fields.values).fields)
    IN  IF TrimmedId(payload.requestTypeId) = ""
        THEN EpResult("returned", "error", "request_type_required", "none",
                      <<>>, <<>>)
        ELSE Once({Answer(a) : a \in {ensureAllowedServiceDesk(
                                          payload.serviceDeskId, payload.ctx, env,
                                          agent, projectSettings)}})

\* resolver "createPortalRequest", seen as an entry point: its result and
\* the per-desk calls it made (the field listing, then the create calls and
\* the attach call, all for allowedServiceDesk.serviceDesk.serviceDeskId).
createPortalRequestEntry(payload, env, agent, projectSettings) ==
    LET Answer(allowedServiceDesk, result) ==
            LET desk == allowedServiceDesk.serviceDesk.serviceDeskId
                gate == IF TrimmedId(payload.requestTypeId) = "" THEN "none"
                        ELSE GateThroughDesk(payload.serviceDeskId, payload.ctx,
                                             env, agent, projectSettings)
                calls ==
                    IF TrimmedId(payload.requestTypeId) = ""
                       \/ allowedServiceDesk.kind # "ok"
                    THEN <<>>
                    ELSE <<DeskCall("field", desk)>>
                         \o [i \in 1..Len(result.calls) |->
                                DeskCall(result.calls[i].call, desk)]
            IN  IF result.kind = "threw" THEN EpThrew(gate)
                ELSE EpResult("returned", result.kind, result.error, gate, calls,
                              <<>>)
    IN  Once({Answer(a, r) :
              a \in {ensureAllowedServiceDesk(payload.serviceDeskId, payload.ctx,
                                              env, agent, projectSettings)},
              r \in {createPortalRequest(payload, env, agent, projectSettings)}})

\* ---- inputs of the entry-point runs ----
ContextPortal == [projectId |-> NULL, portalId |-> "5", projectKey |-> NULL]

EntryPayloads ==
    {[MainPayload EXCEPT !.serviceDeskId = d, !.ctx = c] :
        d \in {"1", " 2 ", "9"}, c \in {NoContext, ContextIT, ContextPortal}}
    \cup {[MainPayload EXCEPT !.serviceDeskId = NULL],
          [MainPayload EXCEPT !.requestTypeId = "  "]}

\* MainEnv and the environments that differ from it in one outcome.
EntryEnvs ==
    {MainEnv,
     [MainEnv EXCEPT !.av.agentRead = "throws"],
     [MainEnv EXCEPT !.av.projectRead = "throws"],
     [MainEnv EXCEPT !.av.portal = LookupOk(" 20")],
     [MainEnv EXCEPT !.desks = DesksError],
     [MainEnv EXCEPT !.desks = DesksOk(<<DeskHR>>)],
     [MainEnv EXCEPT !.settingsRead = "throws"],
     [MainEnv EXCEPT !.requestTypes = RequestTypesError],
     [MainEnv EXCEPT !.fields = FieldsError],
     [MainEnv EXCEPT !.create1 = CreateThrows(FALSE)]}

\* The payloads and environments of a run: every payload under MainEnv,
\* and the payload for desk 1 under the environments its context can meet.
DeskOne(ctx) == [MainPayload EXCEPT !.ctx = ctx]

ContextCases ==
    ({DeskOne(NoContext)} \X EntryEnvs)
    \cup ({DeskOne(ContextIT)}
              \X {MainEnv, [MainEnv EXCEPT !.av.projectRead = "throws"],
                  [MainEnv EXCEPT !.desks = DesksOk(<<DeskHR>>)]})
    \cup ({DeskOne(ContextPortal)}
              \X {MainEnv, [MainEnv EXCEPT !.av.portal = LookupOk(" 20")],
                  [MainEnv EXCEPT !.settingsRead = "throws"]})

EntryCases ==
    ContextCases
    \cup (EntryPayloads \X {MainEnv})
    \cup ({p \in EntryPayloads : p.ctx = ContextPortal}
              \X {[MainEnv EXCEPT !.av.portal = LookupOk(" 20")]})

NoEpCall == [done |-> FALSE]

EpCall(entry, payload, env, result) ==
    [done |-> TRUE, entry |-> entry, payload |-> payload, env |-> env,
     agent |-> agentSettings, projects |-> projectChatSettings,
     rate |-> rateState, llm |-> [settings |-> llmSettings, secret |-> llmSecret],
     result |-> result]

\* An entry point that changes no stored state is invoked.
Invoke(entry, payload, env, result) ==
    /\ epCall' = EpCall(entry, payload, env, result)
    /\ UNCHANGED <<storageVars, availVars, rateVars, createVars, flowVars,
                   llmVars,
                   sessionVars, raceVars,
                   fnVars>>

\* resolver "getPortalCreateRequestProjects"
GetPortalCreateRequestProjects(payload, env) ==
    Invoke("getPortalCreateRequestProjects", payload, env,
           getPortalCreateRequestProjects(payload.ctx, env, agentSettings,
                                          projectChatSettings))

\* resolver "getPortalRequestTypes"
GetPortalRequestTypes(payload, env) ==
    Invoke("getPortalRequestTypes", payload, env,
           getPortalRequestTypes(payload, env, agentSettings,
                                 projectChatSettings))

\* resolver "getPortalRequestTypeFields"
GetPortalRequestTypeFields(payload, env) ==
    Invoke("getPortalRequestTypeFields", payload, env,
           getPortalRequestTypeFields(payload, env, agentSettings,
                                      projectChatSettings))

\* resolver "createPortalRequest"
CreatePortalRequestEntry(payload, env) ==
    Invoke("createPortalRequest", payload, env,
           createPortalRequestEntry(payload, env, agentSettings,
                                    projectChatSettings))

\* resolver "getPortalChatAvailability"
GetPortalChatAvailabilityEntry(payload, env) ==
    Invoke("getPortalChatAvailability", payload, env,
           availabilityEntry(payload.ctx, env, agentSettings,
                             projectChatSettings))

-----------------------------------------------------------------------------
(***************************************************************************)
(* The lookup path: portalChat and chat (src/src/index.js 1143-1186,       *)
(* 1235-1404).                                                             *)
(***************************************************************************)

UpperOf(c) ==
    CASE c = "a" -> "A" [] c = "b" -> "B" [] c = "c" -> "C" [] c = "d" -> "D"
      [] c = "e" -> "E" [] c = "f" -> "F" [] c = "g" -> "G" [] c = "h" -> "H"
      [] c = "i" -> "I" [] c = "j" -> "J" [] c = "k" -> "K" [] c = "l" -> "L"
      [] c = "m" -> "M" [] c = "n" -> "N" [] c = "o" -> "O" [] c = "p" -> "P"
      [] c = "q" -> "Q" [] c = "r" -> "R" [] c = "s" -> "S" [] c = "t" -> "T"
      [] c = "u" -> "U" [] c = "v" -> "V" [] c = "w" -> "W" [] c = "x" -> "X"
      [] c = "y" -> "Y" [] c = "z" -> "Z" [] OTHER -> c

RECURSIVE ToUpperCase(_)
ToUpperCase(s) ==
    IF Len(s) = 0 THEN s
    ELSE UpperOf(ChAt(s, 1)) \o ToUpperCase(SubSeq(s, 2, Len(s)))

\* [A-Z] and [A-Z0-9]
IsUpperLetter(c) == c # LowerOf(c)
IsUpperAlnum(c) == IsUpperLetter(c) \/ IsDigit(c)

\* The last position of the longest run of [A-Z0-9] (of \d) that starts at
\* position i; i - 1 when there is none.
AlnumRunEnd(s, i) ==
    CHOOSE e \in (i - 1)..Len(s) :
        /\ \A k \in i..e : IsUpperAlnum(ChAt(s, k))
        /\ (e = Len(s) \/ ~IsUpperAlnum(ChAt(s, e + 1)))
DigitRunEnd(s, i) ==
    CHOOSE e \in (i - 1)..Len(s) :
        /\ \A k \in i..e : IsDigit(ChAt(s, k))
        /\ (e = Len(s) \/ ~IsDigit(ChAt(s, e + 1)))

\* ISSUE_KEY_REGEX = /\b([A-Z][A-Z0-9]+-\d+)\b/g matched at position i of an
\* upper-case text: the position of the match's last character, 0 for none.
IssueKeyEnd(s, i) ==
    LET prefixEnd == AlnumRunEnd(s, i + 1)
        digitsEnd == DigitRunEnd(s, prefixEnd + 2)
    IN  IF /\ i <= Len(s) /\ IsUpperLetter(ChAt(s, i))
           /\ (i = 1 \/ ~IsWordChar(ChAt(s, i - 1)))
           /\ prefixEnd >= i + 1
           /\ prefixEnd + 1 <= Len(s) /\ ChAt(s, prefixEnd + 1) = "-"
           /\ digitsEnd >= prefixEnd + 2
           /\ (digitsEnd = Len(s) \/ ~IsWordChar(ChAt(s, digitsEnd + 1)))
        THEN digitsEnd ELSE 0

RECURSIVE IssueKeyMatches(_, _)
\* normalizedMessage.match(ISSUE_KEY_REGEX) || [], scanning from position i
IssueKeyMatches(s, i) ==
    IF i > Len(s) THEN <<>>
    ELSE LET e == IssueKeyEnd(s, i)
         IN  IF e = 0 THEN IssueKeyMatches(s, i + 1)
             ELSE <<SubSeq(s, i, e)>> \o IssueKeyMatches(s, e + 1)

\* The matches as they are, a repeated one kept.
EveryMatch(seq) == seq

\* [...new Set(matches)]
Distinct(seq) ==
    LET F[i \in 0..Len(seq)] ==
            IF i = 0 THEN <<>>
            ELSE IF \E k \in 1..(i - 1) : seq[k] = seq[i] THEN F[i - 1]
            ELSE Append(F[i - 1], seq[i])
    IN  F[Len(seq)]

\* extractIssueKeysFromMessage
extractIssueKeysFromMessage(message) ==
    Distinct(IssueKeyMatches(ToUpperCase(IF message = NULL THEN "" ELSE message), 1))

\* The outcome of the fetch of one issue: the call throws, the response is
\* not ok with the given status, its body cannot be read, or it is ok and the
\* body names the issue and its project (NULL: the body names none).
IssueThrows == [kind |-> "throws", status |-> 0, key |-> NULL, projectId |-> NULL]
IssueStatus(status) ==
    [kind |-> "not_ok", status |-> status, key |-> NULL, projectId |-> NULL]
IssueBadBody == [kind |-> "bad_body", status |-> 200, key |-> NULL, projectId |-> NULL]
IssueOk(key, projectId) ==
    [kind |-> "ok", status |-> 200, key |-> key, projectId |-> projectId]

\* One entry of issueResults: an error entry, or the issue's data.  The
\* bodies of the model name no summary, status, assignee or reporter, so the
\* data carry the defaults of the code.
IssueError(key, error) ==
    [issueKey |-> key, error |-> error, data |-> FALSE, summary |-> "",
     status |-> "", assignee |-> "", reporter |-> ""]
IssueData(key) ==
    [issueKey |-> key, error |-> "", data |-> TRUE, summary |-> "",
     status |-> "Unknown", assignee |-> "Unassigned", reporter |-> "Unknown"]

\* A variant that lets through an issue whose body names no project.
issueResultUnlessOtherProject(key, outcome, resolvedProjectId) ==
    LET issueProjectId == normalizeProjectId(outcome.projectId)
    IN  IF outcome.kind = "throws" THEN IssueError(key, "not accessible")
        ELSE IF outcome.kind = "not_ok"
        THEN IssueError(key, IF outcome.status = 404 THEN "not found"
                             ELSE IF outcome.status = 403 THEN "not accessible"
                             ELSE "fetch error")
        ELSE IF resolvedProjectId # NULL
                /\ issueProjectId # NULL /\ issueProjectId # resolvedProjectId
        THEN IssueError(key, "not in this portal project")
        ELSE IssueData(outcome.key)

\* The callback of issueKeys.map in portalChat, for a fetch that does not
\* fail on its body.
issueResult(key, outcome, resolvedProjectId) ==
    LET issueProjectId == normalizeProjectId(outcome.projectId)
    IN  IF outcome.kind = "throws" THEN IssueError(key, "not accessible")
        ELSE IF outcome.kind = "not_ok"
        THEN IssueError(key, IF outcome.status = 404 THEN "not found"
                             ELSE IF outcome.status = 403 THEN "not accessible"
                             ELSE "fetch error")
        ELSE IF resolvedProjectId # NULL
                /\ (issueProjectId = NULL \/ issueProjectId # resolvedProjectId)
        THEN IssueError(key, "not in this portal project")
        ELSE IssueData(outcome.key)

\* inferIntentFromMessage
inferIntentFromMessage(message) ==
    LET lowerMessage == ToLowerCase(IF message = NULL THEN "" ELSE message)
        asksAssignee ==
            \E w \in {"assignee", "assigned", "owner", "working on"} :
                WordStarts(lowerMessage, w) # {}
        asksReporter ==
            \E w \in {"reporter", "reported", "raised", "created by", "opened by"} :
                WordStarts(lowerMessage, w) # {}
    IN  IF asksAssignee /\ asksReporter THEN "all"
        ELSE IF asksAssignee THEN "assignee"
        ELSE IF asksReporter THEN "reporter"
        ELSE "status"

\* `${x}` of a key
KeyText(key) == IF key = NULL THEN "undefined" ELSE key

\* formatFallbackReply: one entry per issue result, each the lines that
\* join("\n") puts together; the entries are what join("\n\n") puts together.
\* " -- " stands for the dash between key and summary.
formatFallbackReply(issueResults, intent) ==
    [i \in 1..Len(issueResults) |->
        LET r == issueResults[i]
        IN  IF r.error # "" THEN <<KeyText(r.issueKey) \o ": Could not be found.">>
            ELSE <<KeyText(r.issueKey) \o " -- " \o r.summary>>
                 \o (IF intent \in {"status", "all"}
                     THEN <<"Status: " \o r.status>> ELSE <<>>)
                 \o (IF intent \in {"assignee", "all"}
                     THEN <<"Assignee: " \o r.assignee>> ELSE <<>>)
                 \o (IF intent \in {"reporter", "all"}
                     THEN <<"Reporter: " \o r.reporter>> ELSE <<>>)]

\* The outcome of the provider's completion call: fetch throws, the response
\* is not ok, or it is ok and its body carries the content (NULL: none).
CompletionThrows == [kind |-> "throws", status |-> 0, content |-> NULL]
CompletionNotOk(status) == [kind |-> "not_ok", status |-> status, content |-> NULL]
CompletionOk(content) == [kind |-> "ok", status |-> 200, content |-> content]

\* An empty completion handed on as a text of one blank.
callLlmTextNeverEmpty(runtimeSettings, completion) ==
    LET text == TrimmedOrEmpty(completion.content)
    IN  IF \/ runtimeSettings.provider = "" \/ runtimeSettings.model = ""
           \/ runtimeSettings.apiKey = ""
        THEN [text |-> "", error |-> "incomplete"]
        ELSE IF completion.kind # "ok" THEN [text |-> "", error |-> "service_error"]
        ELSE [text |-> IF text = "" THEN " " ELSE text, error |-> ""]

\* callLlmText: { text } or { error }
callLlmText(runtimeSettings, completion) ==
    LET text == TrimmedOrEmpty(completion.content)
    IN  IF \/ runtimeSettings.provider = "" \/ runtimeSettings.model = ""
           \/ runtimeSettings.apiKey = ""
        THEN [text |-> "", error |-> "incomplete"]
        ELSE IF completion.kind = "throws" THEN [text |-> "", error |-> "service_error"]
        ELSE IF completion.kind = "not_ok" THEN [text |-> "", error |-> "service_error"]
        ELSE IF text = "" THEN [text |-> "", error |-> "empty_response"]
        ELSE [text |-> text, error |-> ""]

\* The text of a reply of portalChat: the text of the LLM, or the entries of
\* the deterministic reply; neither for the fixed replies.
NoReplyText == [source |-> "", text |-> "", entries |-> <<>>]
LlmReplyText(text) == [source |-> "llm", text |-> text, entries |-> <<>>]
FallbackReplyText(entries) == [source |-> "fallback", text |-> "", entries |-> entries]

\* A reply of portalChat: what it says, the issue results behind it, its
\* text, and the calls made on the way, in order.
ChatReply(says, gate, issueResults, reply, calls) ==
    [kind |-> "returned", shape |-> "reply", error |-> says, gate |-> gate,
     calls |-> calls, items |-> issueResults, text |-> reply.source,
     reply |-> reply]

\* portalChat rejects: the calls made on the way, in order.
ChatThrew(gate, calls) == [EpThrew(gate) EXCEPT !.calls = calls]

\* What portalChat comes to: its result, the rate-limit state and the LLM
\* storage it leaves, and whether it went through the rate limiter.
ChatOutcome(result, state, limited, st) ==
    [result |-> result, rate |-> state, limited |-> limited,
     settings |-> st.settings, secret |-> st.secret]

\* portalChat, from the lookups on (the try block, lines 1307-1403).  calls:
\* the calls made before.
lookupReply(message, resolvedProjectId, runtimeSettings, env, calls) ==
    LET Reply(issueKeys) ==
            LET issueResults ==
                    [i \in 1..Len(issueKeys) |->
                        issueResult(issueKeys[i], env.issues[i], resolvedProjectId)]
                fetches == [i \in 1..Len(issueKeys) |-> "fetch:" \o issueKeys[i]]
                intent == inferIntentFromMessage(message)
                canUseLlmForReply ==
                    /\ runtimeSettings.provider # ""
                    /\ runtimeSettings.model # ""
                    /\ runtimeSettings.apiKey # ""
                llmResult == callLlmText(runtimeSettings, env.llm)
            IN  IF Len(issueKeys) = 0
                THEN ChatReply("no_issue_key", "open", <<>>, NoReplyText, calls)
                ELSE IF \E i \in 1..Len(issueKeys) : env.issues[i].kind = "bad_body"
                THEN ChatReply("went_wrong", "open", <<>>, NoReplyText,
                               calls \o fetches)
                ELSE IF canUseLlmForReply
                THEN ChatReply("lookup", "open", issueResults,
                               IF llmResult.text # ""
                               THEN LlmReplyText(llmResult.text)
                               ELSE FallbackReplyText(
                                        formatFallbackReply(issueResults, intent)),
                               (calls \o fetches) \o <<"complete">>)
                ELSE ChatReply("lookup", "open", issueResults,
                               FallbackReplyText(
                                   formatFallbackReply(issueResults, intent)),
                               calls \o fetches)
    IN  Once({Reply(keys) : keys \in {extractIssueKeysFromMessage(message)}})

\* The storage calls of checkPortalChatRateLimit: the read, and the write
\* unless the read threw or the limit is reached.
RateCalls(state, t, env) ==
    IF env.read = "throws" THEN <<"rate.get">>
    ELSE IF ~WindowIsStale(state.windowStart, t) /\ LimitReached(state.count)
    THEN <<"rate.get">>
    ELSE <<"rate.get", "rate.set">>

\* A variant of portalChat that goes through the rate limiter before it
\* asks the availability policy.
portalChatRateFirst(payload, env, agent, projectSettings, state, t, st) ==
    LET rate == checkPortalChatRateLimit(state, t, env.rate)
        rateCalls == RateCalls(state, t, env.rate) \o <<"availability">>
        After(availability, runtimeSettings) ==
            IF runtimeSettings.st.threw
            THEN ChatOutcome(ChatThrew("open", rateCalls \o <<"llmSettings">>),
                             rate.state, TRUE, runtimeSettings.st)
            ELSE ChatOutcome(lookupReply(payload.message, availability.projectId,
                                         runtimeSettings, env,
                                         rateCalls \o <<"llmSettings">>),
                             rate.state, TRUE, runtimeSettings.st)
        Gated(availability) ==
            IF availability.kind = "threw"
            THEN ChatOutcome(ChatThrew("threw", rateCalls), rate.state, TRUE, st)
            ELSE IF ~availability.enabled
            THEN ChatOutcome(ChatReply("disabled", "closed", <<>>, NoReplyText,
                                       rateCalls),
                             rate.state, TRUE, st)
            ELSE Once({After(availability, l) :
                       l \in {getLlmRuntimeSettings(st, env.failAt)}})
    IN  IF payload.message = NULL \/ Trim(payload.message) = ""
        THEN ChatOutcome(ChatReply("enter_message", "none", <<>>, NoReplyText, <<>>),
                         state, FALSE, st)
        ELSE IF ~rate.result.allowed
        THEN ChatOutcome(ChatReply("rate_limited", "open", <<>>, NoReplyText,
                                   RateCalls(state, t, env.rate)),
                         rate.state, TRUE, st)
        ELSE Once({Gated(a) : a \in {getPortalChatAvailability(
                                         payload.ctx, env.av, agent,
                                         projectSettings)}})

\* resolver "portalChat".  state: the requester's stored rate-limit state;
\* t: Date.now(); st: the LLM storage.
portalChat(payload, env, agent, projectSettings, state, t, st) ==
    LET Limited(availability, rate) ==
            LET rateCalls == <<"availability">> \o RateCalls(state, t, env.rate)
                After(runtimeSettings) ==
                    IF runtimeSettings.st.threw
                    THEN ChatOutcome(ChatThrew("open", rateCalls \o <<"llmSettings">>),
                                     rate.state, TRUE, runtimeSettings.st)
                    ELSE ChatOutcome(lookupReply(payload.message,
                                                 availability.projectId,
                                                 runtimeSettings, env,
                                                 rateCalls \o <<"llmSettings">>),
                                     rate.state, TRUE, runtimeSettings.st)
            IN  IF ~rate.result.allowed
                THEN ChatOutcome(ChatReply("rate_limited", "open", <<>>, NoReplyText,
                                           rateCalls),
                                 rate.state, TRUE, st)
                ELSE Once({After(l) : l \in {getLlmRuntimeSettings(st, env.failAt)}})
        Gated(availability) ==
            IF availability.kind = "threw"
            THEN ChatOutcome(ChatThrew("threw", <<"availability">>), state, FALSE, st)
            ELSE IF ~availability.enabled
            THEN ChatOutcome(ChatReply("disabled", "closed", <<>>, NoReplyText,
                                       <<"availability">>),
                             state, FALSE, st)
            ELSE Once({Limited(availability, rate) :
                       rate \in {checkPortalChatRateLimit(state, t, env.rate)}})
    IN  IF payload.message = NULL \/ Trim(payload.message) = ""
        THEN ChatOutcome(ChatReply("enter_message", "none", <<>>, NoReplyText, <<>>),
                         state, FALSE, st)
        ELSE Once({Gated(a) : a \in {getPortalChatAvailability(
                                         payload.ctx, env.av, agent,
                                         projectSettings)}})

\* storage.get("projectChatSettings") is an object: the admin screen has
\* saved the map at least once (it saves it with the toggled entry in it).
MapStored(projectSettings) ==
    \E p \in DOMAIN projectSettings : projectSettings[p] # "absent"

\* resolver "chat".  url: the stored fastApiUrl.
chat(payload, env, agent, url, projectSettings, st) ==
    LET Forward(runtimeSettings) ==
            IF runtimeSettings.st.threw \/ env.backend = "throws"
            THEN ChatOutcome(EpThrew("open"), NoWindow, FALSE, runtimeSettings.st)
            ELSE ChatOutcome(EpResult("returned", "backend", "", "open", <<>>, <<>>),
                             NoWindow, FALSE, runtimeSettings.st)
    IN  IF env.av.agentRead = "throws"
        THEN ChatOutcome(EpThrew("threw"), NoWindow, FALSE, st)
        ELSE IF agent # "true"
        THEN ChatOutcome(EpResult("returned", "error", "disabled_by_admin",
                                  "closed", <<>>, <<>>), NoWindow, FALSE, st)
        ELSE IF url = ""
        THEN ChatOutcome(EpResult("returned", "error", "url_not_configured",
                                  "none", <<>>, <<>>), NoWindow, FALSE, st)
        ELSE IF Present(payload.ctx.projectId) /\ env.av.projectRead = "throws"
        THEN ChatOutcome(EpThrew("threw"), NoWindow, FALSE, st)
        ELSE IF /\ Present(payload.ctx.projectId)
                /\ MapStored(projectSettings)
                /\ ~ProjectEnabled(projectSettings, payload.ctx.projectId)
        THEN ChatOutcome(EpResult("returned", "error", "project_disabled",
                                  "closed", <<>>, <<>>), NoWindow, FALSE, st)
        ELSE Once({Forward(l) : l \in {getLlmRuntimeSettings(st, env.failAt)}})

\* ---- inputs of the lookup runs ----
ChatMessages ==
    {NULL, "  ", "hello", "status of tj-1?", "TJ-1, HR-22 and tj-1", "who raised tj-1?"}

IssueOutcomes ==
    {IssueThrows, IssueStatus(404), IssueStatus(403), IssueStatus(500),
     IssueBadBody, IssueOk("TJ-1", "10"), IssueOk("HR-22", " 20 "),
     IssueOk("TJ-1", NULL)}

ChatPayload(message, ctx) == [message |-> message, ctx |-> ctx]

ChatEnv ==
    [av |-> WorkingAvEnv, rate |-> WorkingStorage, failAt |-> 0,
     issues |-> <<IssueOk("TJ-1", "10"), IssueOk("HR-22", " 20 ")>>,
     llm |-> CompletionOk(" TJ-1 is in progress. "), backend |-> "ok"]

\* ChatEnv and the environments that differ from it in one outcome.
ChatEnvs ==
    {ChatEnv,
     [ChatEnv EXCEPT !.av.agentRead = "throws"],
     [ChatEnv EXCEPT !.av.projectRead = "throws"],
     [ChatEnv EXCEPT !.rate.read = "throws"],
     [ChatEnv EXCEPT !.failAt = 1],
     [ChatEnv EXCEPT !.failAt = 3],
     [ChatEnv EXCEPT !.llm = CompletionNotOk(429)],
     [ChatEnv EXCEPT !.backend = "throws"]}
        \cup {[ChatEnv EXCEPT !.issues = <<o, IssueStatus(404)>>] :
                 o \in IssueOutcomes}

\* The environments of a lookup of two keys: the fetch of the first succeeds
\* or fails in one of the ways, the fetch of the second likewise.
PairEnvs ==
    {[ChatEnv EXCEPT !.issues = <<first, second>>] :
        first \in {IssueOk("TJ-1", "10"), IssueThrows, IssueBadBody},
        second \in {IssueOk("HR-22", "10"), IssueOk("HR-22", " 20 "),
                    IssueStatus(404)}}

\* The cases of portalChat: every message under ChatEnv, and a lookup of one
\* key in the context of project 10 under every environment.
ChatCases ==
    ({ChatPayload(m, c) : m \in ChatMessages, c \in {NoContext, ContextIT}}
        \X {ChatEnv})
    \cup ({ChatPayload("status of tj-1?", ContextIT)} \X ChatEnvs)

\* The environments of a lookup that differ from ChatEnv in the outcome of
\* the completion.
CompletionEnvs ==
    {[ChatEnv EXCEPT !.llm = completion] :
        completion \in {CompletionNotOk(429), CompletionThrows, CompletionOk("  "),
                        CompletionOk(NULL)}}

\* The cases of a requester's lookups: every message under ChatEnv, a lookup
\* of one key under every outcome of the completion, and a lookup of two keys
\* under every pair of fetch outcomes.
LookupCases ==
    ({ChatPayload(m, ContextIT) : m \in ChatMessages} \X {ChatEnv})
    \cup ({ChatPayload("status of tj-1?", ContextIT)} \X CompletionEnvs)
    \cup ({ChatPayload("TJ-1, HR-22 and tj-1", ContextIT)} \X PairEnvs)

\* The cases of chat: payload.projectId absent, "10" or "30".
LegacyChatCases ==
    ({ChatPayload("hello", c) :
         c \in {NoContext, ContextIT, [NoContext EXCEPT !.projectId = "30"]}}
        \X {ChatEnv})
    \cup ({ChatPayload("hello", ContextIT)}
            \X {[ChatEnv EXCEPT !.av.agentRead = "throws"],
                [ChatEnv EXCEPT !.av.projectRead = "throws"],
                [ChatEnv EXCEPT !.failAt = 1],
                [ChatEnv EXCEPT !.backend = "throws"]})

\* The agent settings the admin saves in these runs.
ChatSettings == {<<"true", "https://agent.example">>, <<"true", "">>,
                 <<"false", "https://agent.example">>}

\* The one payload the LLM settings are saved with in these runs.
ChatLlmPayload == [provider |-> "claude", model |-> "sonnet", apiKey |-> "sk-12345678"]

\* For a call that goes through the rate limiter: the requester has calls
\* left in the run.
WithinBudget(r, limited) ==
    ~limited
    \/ rlHistory[r].windowStart = 0
    \/ now - rlHistory[r].windowStart >= PORTAL_CHAT_RATE_LIMIT_WINDOW_MS
    \/ rlHistory[r].calls < CallBudget(r)

\* resolver "portalChat", invoked by requester r
PortalChat(r, payload, env) ==
    \E out \in {portalChat(payload, env, agentSettings, projectChatSettings,
                           rateState[r], now, LlmStore(llmSettings, llmSecret))} :
        /\ WithinBudget(r, out.limited)
        /\ epCall' = EpCall("portalChat", payload, env, out.result)
        /\ rateState' = [rateState EXCEPT ![r] = out.rate]
        /\ rlHistory' = IF out.limited
                        THEN [rlHistory EXCEPT
                                 ![r] = HistoryAfterCall(@, now, env.rate)]
                        ELSE rlHistory
        /\ llmSettings' = out.settings
        /\ llmSecret' = out.secret
        /\ UNCHANGED <<now, rlCall, storageVars, availVars, createVars,
                       flowVars, llmCall,
                   sessionVars, raceVars,
                   fnVars>>

\* resolver "chat"
Chat(payload, env) ==
    \E out \in {chat(payload, env, agentSettings, fastApiUrl, projectChatSettings,
                     LlmStore(llmSettings, llmSecret))} :
        /\ epCall' = EpCall("chat", payload, env, out.result)
        /\ llmSettings' = out.settings
        /\ llmSecret' = out.secret
        /\ UNCHANGED <<storageVars, availVars, rateVars, createVars, flowVars,
                       llmCall,
                   sessionVars, raceVars,
                   fnVars>>

-----------------------------------------------------------------------------
(***************************************************************************)
(* Portal UI: text matching (src/static/portal-ui/src/App.js 813-982).     *)
(***************************************************************************)

\* CANCEL_FLOW_REGEX = /^(cancel|stop|exit|reset)$/i
CancelWords == {"cancel", "stop", "exit", "reset"}

IsCancel(text) == ToLowerCase(text) \in CancelWords

\* SKIP_STEP_REGEX = /^(skip|no|none|not now|done|continue|next)$/i
IsSkip(text) ==
    ToLowerCase(text) \in {"skip", "no", "none", "not now", "done", "continue", "next"}

\* CONFIRM_REGEX = /^(yes|y|create|submit|confirm|go ahead)$/i
IsConfirm(text) ==
    ToLowerCase(text) \in {"yes", "y", "create", "submit", "confirm", "go ahead"}

\* ATTACH_HELP_REGEX = /\b(attach|upload|file|document)\b/i
IsAttachHelp(text) ==
    \E w \in {"attach", "upload", "file", "document"} :
        WordStarts(ToLowerCase(text), w) # {}

\* CREATE_REQUEST_INTENT_REGEX =
\*   /\b(create|raise|submit|open)\b.*\b(request|ticket|issue)\b|\bnew request\b/i
IsCreateIntent(text) ==
    LET lower == ToLowerCase(text)
    IN  \/ \E v \in {"create", "raise", "submit", "open"} :
           \E n \in {"request", "ticket", "issue"} :
           \E i \in WordStarts(lower, v) :
           \E j \in WordStarts(lower, n) : j >= i + Len(v)
        \/ WordStarts(lower, "new request") # {}

\* normalizeText
normalizeText(value) == IF value = NULL THEN "" ELSE ToLowerCase(Trim(value))

\* String(Number.parseInt(s, 10)) === s and the number is >= 1
IsPositionText(s) == AllDigits(s) /\ ChAt(s, 1) # "0"

\* A variant that tests position and tokens element by element.
findItemLeftToRight(items, userInput, tokens) ==
    LET normalizedInput == normalizeText(userInput)
        Hit(i) ==
            \/ normalizedInput = DecimalString(i)
            \/ \E k \in 1..Len(tokens[i]) :
                   LET token == normalizeText(tokens[i][k])
                   IN  token # "" /\ Includes(token, normalizedInput)
        hits == {i \in 1..Len(items) : Hit(i)}
    IN  IF normalizedInput = "" \/ hits = {} THEN 0
        ELSE CHOOSE i \in hits : \A j \in hits : i <= j

\* findItemByUserInput: the 1-based position of the item found, 0 for null.
\* tokens[i] is the token list the caller's tokenBuilder yields for items[i].
findItemByUserInput(items, userInput, tokens) ==
    LET normalizedInput == normalizeText(userInput)
        byPosition ==
            IF IsPositionText(normalizedInput) THEN DecimalValue(normalizedInput) ELSE 0
        TokenHit(i) ==
            \E k \in 1..Len(tokens[i]) :
                LET token == normalizeText(tokens[i][k])
                IN  token # "" /\ Includes(token, normalizedInput)
        hits == {i \in 1..Len(items) : TokenHit(i)}
    IN  IF normalizedInput = "" \/ Len(items) = 0 THEN 0
        ELSE IF byPosition >= 1 /\ byPosition <= Len(items) THEN byPosition
        ELSE IF hits = {} THEN 0
        ELSE CHOOSE i \in hits : \A j \in hits : i <= j

\* An option button of a bot message: { label, value } or { label, action }.
Option(label, value, action) == [label |-> label, value |-> value, action |-> action]

Numbered(index, name) == DecimalString(index) \o ". " \o name

\* buildProjectOptions
buildProjectOptions(projects) ==
    [i \in 1..Len(projects) |->
        Option(Numbered(i, projects[i].projectName), projects[i].serviceDeskId, "")]

\* buildRequestTypeOptions
buildRequestTypeOptions(requestTypes) ==
    [i \in 1..Len(requestTypes) |->
        Option(Numbered(i, requestTypes[i].name), requestTypes[i].id, "")]

\* The number of options shown for a field: .slice(0, 12)
MaxFieldOptions == 12

\* buildFieldOptions
buildFieldOptions(field) ==
    LET shown == Take(field.validValues, MaxFieldOptions)
    IN  [i \in 1..Len(shown) |->
            Option(Numbered(i, shown[i].label),
                   IF Present(shown[i].id) THEN shown[i].id
                   ELSE IF Present(shown[i].value) THEN shown[i].value
                   ELSE shown[i].label,
                   "")]

-----------------------------------------------------------------------------
(***************************************************************************)
(* Portal UI: the request-creation dialogue                                *)
(* (src/static/portal-ui/src/App.js 836-849, 1103-1630).                   *)
(***************************************************************************)

\* selectedProject: null / selectedRequestType: null
NullProject ==
    [serviceDeskId |-> NULL, projectId |-> NULL, projectKey |-> NULL,
     projectName |-> NULL, portalName |-> NULL]
NullRequestType == [id |-> NULL, name |-> NULL]

INITIAL_CREATE_FLOW ==
    [active |-> FALSE,
     stage |-> "idle",
     projects |-> <<>>,
     requestTypes |-> <<>>,
     selectedProject |-> NullProject,
     selectedRequestType |-> NullRequestType,
     allowsAttachments |-> FALSE,
     fields |-> <<>>,
     currentFieldIndex |-> 0,
     answers |-> NoAnswers,
     temporaryAttachmentIds |-> <<>>,
     attachmentNames |-> <<>>]

\* A bot message: what it says (kind), its option buttons, and the lines of
\* a summary it carries.
Bot(kind, options) == [kind |-> kind, options |-> options, detail |-> <<>>]

\* What a handler did: the new dialogue state (its last setCreateFlow), the
\* bot messages it appended and the resolvers it invoked.
Step(flow, bot, calls) == [flow |-> flow, bot |-> bot, calls |-> calls]

\* askForCurrentField: the messages appended
askForCurrentField(flow) ==
    IF flow.currentFieldIndex + 1 > Len(flow.fields) THEN <<>>
    ELSE <<Bot("field_prompt",
               buildFieldOptions(flow.fields[flow.currentFieldIndex + 1]))>>

AttachmentOptions ==
    <<Option("Attach files", "", "attach"),
      Option("Skip attachments", "skip", ""),
      Option("Cancel", "cancel", "")>>

ConfirmOptions ==
    <<Option("Create request", "create", ""), Option("Cancel", "cancel", "")>>

\* moveToAttachmentStep
moveToAttachmentStep(flow, calls) ==
    Step([flow EXCEPT !.stage = "attachments"],
         <<Bot("attachments_prompt", AttachmentOptions)>>, calls)

RECURSIVE JoinWith(_, _)
\* seq.join(sep)
JoinWith(seq, sep) ==
    IF Len(seq) = 0 THEN ""
    ELSE IF Len(seq) = 1 THEN seq[1]
    ELSE seq[1] \o sep \o JoinWith(Tail(seq), sep)

\* formatAnswerForSummary, for the answers the dialogue stores
formatAnswerForSummary(answer) ==
    IF answer.t = "undef" THEN ""
    ELSE IF answer.t = "obj"
    THEN (IF Present(answer.label) THEN answer.label
          ELSE IF Present(answer.value) THEN answer.value
          ELSE IF Present(answer.id) THEN answer.id
          ELSE IF Present(answer.accountId) THEN answer.accountId ELSE "{}")
    ELSE ScalarText(answer)

\* moveToConfirmStep
moveToConfirmStep(flow, calls) ==
    LET AnswerOf(fieldId) ==
            IF fieldId \in DOMAIN flow.answers THEN flow.answers[fieldId]
            ELSE UNDEFINED
        answerLines ==
            [i \in 1..Len(flow.fields) |->
                flow.fields[i].name \o ": "
                    \o formatAnswerForSummary(AnswerOf(flow.fields[i].fieldId))]
        attachmentLine ==
            IF ~flow.allowsAttachments THEN "Attachments: not supported"
            ELSE IF Len(flow.attachmentNames) > 0
            THEN "Attachments: " \o JoinWith(flow.attachmentNames, ", ")
            ELSE "Attachments: none"
    IN  Step([flow EXCEPT !.stage = "confirm"],
             <<[Bot("confirm_prompt", ConfirmOptions)
                   EXCEPT !.detail = Append(answerLines, attachmentLine)]>>,
             calls)

\* The results of the resolvers the dialogue invokes.  kind "threw": the
\* invoke promise rejects.
ProjectsResult(kind, projects) == [kind |-> kind, projects |-> projects]
RequestTypesResult(kind, requestTypes) == [kind |-> kind, requestTypes |-> requestTypes]
FieldsResult(kind, listing) ==
    [kind |-> kind, fields |-> requestTypeFieldsOf(listing).fields,
     allowsAttachments |-> requestTypeFieldsOf(listing).allowsAttachments]
SubmitResult(kind, issueKey, warning) ==
    [kind |-> kind, issueKey |-> issueKey, warning |-> warning]

\* A variant that opens the project selection whatever list came back.
startCreateRequestFlowAnyList(flow, result) ==
    LET calls == <<"getPortalCreateRequestProjects">>
    IN  IF result.kind = "threw" THEN Step(flow, <<Bot("could_not_start", <<>>)>>, calls)
        ELSE IF result.kind = "error" THEN Step(flow, <<Bot("error", <<>>)>>, calls)
        ELSE Step([INITIAL_CREATE_FLOW EXCEPT
                      !.active = TRUE, !.stage = "select_project",
                      !.projects = result.projects],
                  <<Bot("choose_project", buildProjectOptions(result.projects))>>,
                  calls)

\* startCreateRequestFlow
startCreateRequestFlow(flow, result) ==
    LET calls == <<"getPortalCreateRequestProjects">>
    IN  IF result.kind = "threw" THEN Step(flow, <<Bot("could_not_start", <<>>)>>, calls)
        ELSE IF result.kind = "error" THEN Step(flow, <<Bot("error", <<>>)>>, calls)
        ELSE IF Len(result.projects) = 0
        THEN Step(flow, <<Bot("no_enabled_projects", <<>>)>>, calls)
        ELSE Step([INITIAL_CREATE_FLOW EXCEPT
                      !.active = TRUE, !.stage = "select_project",
                      !.projects = result.projects],
                  <<Bot("choose_project", buildProjectOptions(result.projects))>>,
                  calls)

\* A variant that keeps the answers collected so far.
resetCreateFlowKeepAnswers(flow) ==
    [INITIAL_CREATE_FLOW EXCEPT !.answers = flow.answers]

\* A variant that clears everything but the stage.
resetCreateFlowKeepStage(flow) ==
    [INITIAL_CREATE_FLOW EXCEPT !.stage = flow.stage]

\* resetCreateFlow
resetCreateFlow(flow) == INITIAL_CREATE_FLOW

\* A variant that keeps the project chosen although no request type came
\* back for it.
selectProjectKeepingChoice(flow, text, env) ==
    LET found == findItemByUserInput(flow.projects, text,
                     [i \in 1..Len(flow.projects) |->
                         <<flow.projects[i].projectName, flow.projects[i].portalName,
                           flow.projects[i].projectKey,
                           flow.projects[i].serviceDeskId>>])
        result == env.requestTypes
        calls == <<"getPortalRequestTypes">>
    IN  IF found = 0
        THEN Step(flow, <<Bot("invalid_project", buildProjectOptions(flow.projects))>>,
                  <<>>)
        ELSE IF result.kind = "ok" /\ Len(result.requestTypes) > 0
        THEN Step([flow EXCEPT !.stage = "select_request_type",
                               !.selectedProject = flow.projects[found],
                               !.requestTypes = result.requestTypes],
                  <<Bot("choose_request_type",
                        buildRequestTypeOptions(result.requestTypes))>>,
                  calls)
        ELSE Step([flow EXCEPT !.selectedProject = flow.projects[found]],
                  <<Bot("no_request_types", buildProjectOptions(flow.projects))>>,
                  calls)

\* handleCreateFlowInput, stage select_project
selectProject(flow, text, env) ==
    LET found == findItemByUserInput(flow.projects, text,
                     [i \in 1..Len(flow.projects) |->
                         <<flow.projects[i].projectName, flow.projects[i].portalName,
                           flow.projects[i].projectKey,
                           flow.projects[i].serviceDeskId>>])
        selectedProject == flow.projects[found]
        result == env.requestTypes
        calls == <<"getPortalRequestTypes">>
    IN  IF found = 0
        THEN Step(flow, <<Bot("invalid_project", buildProjectOptions(flow.projects))>>,
                  <<>>)
        ELSE IF result.kind = "threw"
        THEN Step(flow, <<Bot("could_not_load_request_types", <<>>)>>, calls)
        ELSE IF result.kind = "error" THEN Step(flow, <<Bot("error", <<>>)>>, calls)
        ELSE IF Len(result.requestTypes) = 0
        THEN Step(flow, <<Bot("no_request_types", buildProjectOptions(flow.projects))>>,
                  calls)
        ELSE Step([flow EXCEPT !.stage = "select_request_type",
                               !.selectedProject = selectedProject,
                               !.requestTypes = result.requestTypes],
                  <<Bot("choose_request_type",
                        buildRequestTypeOptions(result.requestTypes))>>,
                  calls)

\* A variant that passes through the attachment step whether or not the
\* request type supports attachments.
selectRequestTypeViaAttachments(flow, text, env) ==
    LET found == findItemByUserInput(flow.requestTypes, text,
                     [i \in 1..Len(flow.requestTypes) |->
                         <<flow.requestTypes[i].name, flow.requestTypes[i].id>>])
        result == env.fields
        calls == <<"getPortalRequestTypeFields">>
        nextFlow ==
            [flow EXCEPT
                !.stage = IF Len(result.fields) > 0 THEN "collect_fields"
                          ELSE "attachments",
                !.selectedRequestType = flow.requestTypes[found],
                !.allowsAttachments = result.allowsAttachments,
                !.fields = result.fields,
                !.currentFieldIndex = 0,
                !.answers = NoAnswers,
                !.temporaryAttachmentIds = <<>>,
                !.attachmentNames = <<>>]
    IN  IF found = 0
        THEN Step(flow, <<Bot("invalid_request_type",
                              buildRequestTypeOptions(flow.requestTypes))>>, <<>>)
        ELSE IF result.kind = "threw"
        THEN Step(flow, <<Bot("could_not_load_fields", <<>>)>>, calls)
        ELSE IF result.kind = "error" THEN Step(flow, <<Bot("error", <<>>)>>, calls)
        ELSE IF Len(result.fields) > 0
        THEN Step(nextFlow, askForCurrentField(nextFlow), calls)
        ELSE moveToAttachmentStep(nextFlow, calls)

\* handleCreateFlowInput, stage select_request_type
selectRequestType(flow, text, env) ==
    LET found == findItemByUserInput(flow.requestTypes, text,
                     [i \in 1..Len(flow.requestTypes) |->
                         <<flow.requestTypes[i].name, flow.requestTypes[i].id>>])
        result == env.fields
        calls == <<"getPortalRequestTypeFields">>
        nextFlow ==
            [flow EXCEPT
                !.stage = IF Len(result.fields) > 0 THEN "collect_fields"
                          ELSE IF result.allowsAttachments THEN "attachments"
                          ELSE "confirm",
                !.selectedRequestType = flow.requestTypes[found],
                !.allowsAttachments = result.allowsAttachments,
                !.fields = result.fields,
                !.currentFieldIndex = 0,
                !.answers = NoAnswers,
                !.temporaryAttachmentIds = <<>>,
                !.attachmentNames = <<>>]
    IN  IF found = 0
        THEN Step(flow, <<Bot("invalid_request_type",
                              buildRequestTypeOptions(flow.requestTypes))>>, <<>>)
        ELSE IF result.kind = "threw"
        THEN Step(flow, <<Bot("could_not_load_fields", <<>>)>>, calls)
        ELSE IF result.kind = "error" THEN Step(flow, <<Bot("error", <<>>)>>, calls)
        ELSE IF Len(result.fields) > 0
        THEN Step(nextFlow, askForCurrentField(nextFlow), calls)
        ELSE IF result.allowsAttachments THEN moveToAttachmentStep(nextFlow, calls)
        ELSE moveToConfirmStep(nextFlow, calls)


\* The field being asked: createFlow.fields[createFlow.currentFieldIndex]
CurrentField(flow) == flow.fields[flow.currentFieldIndex + 1]

\* Whether the answer is matched against the field's options (lines 1337-1341)
AnswersByOption(field) ==
    \/ field.inputType = "select"
    \/ field.inputType = "multi_select"
    \/ Len(field.validValues) > 0

MatchedOption(field, text) ==
    findItemByUserInput(field.validValues, text,
        [i \in 1..Len(field.validValues) |->
            <<field.validValues[i].label, field.validValues[i].id,
              field.validValues[i].value>>])

\* Whether the text is refused as an answer to the field (lines 1348, 1363, 1370)
AnswerRefused(field, text) ==
    IF AnswersByOption(field) THEN MatchedOption(field, text) = 0
    ELSE IF field.inputType = "number" THEN ~IsNumericText(Trim(text))
    ELSE Trim(text) = ""

\* parsedAnswer of an accepted text
ParsedAnswer(field, text) ==
    IF AnswersByOption(field)
    THEN LET matchedOption == field.validValues[MatchedOption(field, text)]
         IN  Obj(NULL, matchedOption.id, matchedOption.value, NULL, matchedOption.label)
    ELSE IF field.inputType = "number" THEN Num(NumericValue(Trim(text)))
    ELSE Str(Trim(text))

\* The re-prompt after a refused answer
RefusedPrompt(field) ==
    IF AnswersByOption(field) THEN Bot("invalid_option", buildFieldOptions(field))
    ELSE IF field.inputType = "number" THEN Bot("invalid_number", <<>>)
    ELSE Bot("value_required", <<>>)

\* A variant that passes over the field whose answer was refused.
refuseAnswerSkipping(flow, field) ==
    Step([flow EXCEPT !.currentFieldIndex = @ + 1], <<RefusedPrompt(field)>>, <<>>)

\* A refused answer: the re-prompt is appended and the handler returns
\* without calling setCreateFlow.
refuseAnswer(flow, field) == Step(flow, <<RefusedPrompt(field)>>, <<>>)

\* A variant that keeps only the answer just given.
PutOnly(answers, fieldId, answer) == [f \in {fieldId} |-> answer]

\* { ...createFlow.answers, [currentField.fieldId]: parsedAnswer }
Put(answers, fieldId, answer) ==
    [f \in DOMAIN answers \cup {fieldId} |->
        IF f = fieldId THEN answer ELSE answers[f]]

\* handleCreateFlowInput, stage collect_fields
collectField(flow, text) ==
    LET currentField == CurrentField(flow)
        nextAnswers == Put(flow.answers, currentField.fieldId,
                           ParsedAnswer(currentField, text))
        nextFlow == [flow EXCEPT !.answers = nextAnswers,
                                 !.currentFieldIndex = flow.currentFieldIndex + 1]
        completedFlow == [flow EXCEPT !.answers = nextAnswers]
    IN  IF flow.currentFieldIndex + 1 > Len(flow.fields)
        THEN (IF flow.allowsAttachments THEN moveToAttachmentStep(flow, <<>>)
              ELSE moveToConfirmStep(flow, <<>>))
        ELSE IF AnswerRefused(currentField, text)
        THEN refuseAnswer(flow, currentField)
        ELSE IF flow.currentFieldIndex + 1 < Len(flow.fields)
        THEN Step(nextFlow, askForCurrentField(nextFlow), <<>>)
        ELSE IF completedFlow.allowsAttachments
        THEN moveToAttachmentStep(completedFlow, <<>>)
        ELSE moveToConfirmStep(completedFlow, <<>>)

\* A variant whose skip token drops the files attached so far.
attachmentsInputDroppingFiles(flow, text) ==
    IF IsSkip(text)
    THEN moveToConfirmStep([flow EXCEPT !.temporaryAttachmentIds = <<>>,
                                        !.attachmentNames = <<>>], <<>>)
    ELSE IF IsAttachHelp(text) THEN Step(flow, <<Bot("select_files", <<>>)>>, <<>>)
    ELSE Step(flow, <<Bot("attachments_help", AttachmentOptions)>>, <<>>)

\* handleCreateFlowInput, stage attachments
attachmentsInput(flow, text) ==
    IF IsSkip(text) THEN moveToConfirmStep(flow, <<>>)
    ELSE IF IsAttachHelp(text) THEN Step(flow, <<Bot("select_files", <<>>)>>, <<>>)
    ELSE Step(flow, <<Bot("attachments_help", AttachmentOptions)>>, <<>>)

\* A variant that resets the dialogue whatever createPortalRequest returned.
afterSubmitAlwaysReset(flow, result) ==
    Step(resetCreateFlow(flow), <<Bot("request_created", <<>>)>>,
         <<"createPortalRequest">>)

\* What the confirm stage does with the result of createPortalRequest
afterSubmit(flow, result) ==
    LET calls == <<"createPortalRequest">>
    IN  IF result.kind = "threw" THEN Step(flow, <<Bot("create_failed", <<>>)>>, calls)
        ELSE IF result.kind # "success" THEN Step(flow, <<Bot("error", <<>>)>>, calls)
        ELSE Step(resetCreateFlow(flow),
                  <<[Bot("request_created", <<>>) EXCEPT
                        !.detail = <<result.issueKey, result.warning>>]>>,
                  calls)

\* handleCreateFlowInput, stage confirm
confirmInput(flow, text, env) ==
    IF ~IsConfirm(text) THEN Step(flow, <<Bot("confirm_help", <<>>)>>, <<>>)
    ELSE afterSubmit(flow, env.create)

\* handleCreateFlowInput for an active flow (it returns true in every stage)
handleCreateFlowInput(flow, text, env) ==
    IF IsCancel(text)
    THEN Step(resetCreateFlow(flow), <<Bot("canceled", <<>>)>>, <<>>)
    ELSE IF flow.stage = "select_project" THEN selectProject(flow, text, env)
    ELSE IF flow.stage = "select_request_type" THEN selectRequestType(flow, text, env)
    ELSE IF flow.stage = "collect_fields" THEN collectField(flow, text)
    ELSE IF flow.stage = "attachments" THEN attachmentsInput(flow, text)
    ELSE confirmInput(flow, text, env)

\* handleChatLookup
handleChatLookup(flow, text) ==
    Step(flow, <<Bot("lookup_reply", <<>>)>>, <<"portalChat">>)

\* A variant that looks for the create intent before it looks at the flow.
processUserInputIntentFirst(flow, text, env) ==
    IF IsCreateIntent(text) THEN startCreateRequestFlow(flow, env.projects)
    ELSE IF flow.active THEN handleCreateFlowInput(flow, text, env)
    ELSE handleChatLookup(flow, text)

\* processUserInput for a non-empty trimmed text
processUserInput(flow, text, env) ==
    IF flow.active THEN handleCreateFlowInput(flow, text, env)
    ELSE IF IsCreateIntent(text) THEN startCreateRequestFlow(flow, env.projects)
    ELSE handleChatLookup(flow, text)

\* One file of a selection and the outcome of its upload: the temporary
\* attachment id, or NULL when uploadAttachment throws.
File(name, uploadedId) == [name |-> name, uploadedId |-> uploadedId, fileName |-> ""]

\* The upload response carries a file name of its own.
Reported(file, fileName) == [file EXCEPT !.fileName = fileName]

\* uploaded.fileName: temporaryAttachment.fileName || file.name
UploadedName(file) == IF file.fileName # "" THEN file.fileName ELSE file.name

\* A variant that gives the whole selection up when one upload fails.
attachFilesAllOrNothing(flow, files) ==
    LET failed == SeqFilter(files, LAMBDA f : f.uploadedId = NULL)
        errors == SeqMap(failed, LAMBDA f : [Bot("upload_failed", <<>>)
                                                EXCEPT !.detail = <<f.name>>])
        calls == SeqMap(files, LAMBDA f : "attachTemporaryFile")
    IN  IF Len(failed) > 0 THEN Step(flow, errors, calls)
        ELSE Step([flow EXCEPT
                      !.temporaryAttachmentIds =
                          @ \o SeqMap(files, LAMBDA f : f.uploadedId),
                      !.attachmentNames =
                          @ \o SeqMap(files, LAMBDA f : UploadedName(f))],
                  <<[Bot("attached", <<>>) EXCEPT
                        !.detail = SeqMap(files, LAMBDA f : UploadedName(f))]>>,
                  calls)

\* handleAttachmentSelection for a non-empty selection in stage attachments
attachFiles(flow, files) ==
    LET uploaded == SeqFilter(files, LAMBDA f : f.uploadedId # NULL)
        failed == SeqFilter(files, LAMBDA f : f.uploadedId = NULL)
        uploadedIds == SeqMap(uploaded, LAMBDA f : f.uploadedId)
        uploadedNames == SeqMap(uploaded, LAMBDA f : UploadedName(f))
        errors == SeqMap(failed, LAMBDA f : [Bot("upload_failed", <<>>)
                                                EXCEPT !.detail = <<f.name>>])
        calls == SeqMap(files, LAMBDA f : "attachTemporaryFile")
    IN  IF Len(uploadedIds) > 0
        THEN Step([flow EXCEPT
                      !.temporaryAttachmentIds = @ \o uploadedIds,
                      !.attachmentNames = @ \o uploadedNames],
                  Append(errors, [Bot("attached", <<>>) EXCEPT !.detail = uploadedNames]),
                  calls)
        ELSE Step(flow, errors, calls)


\* ---- inputs of the dialogue runs ----
ProjectIT == mapServiceDeskSummary(DeskIT)
ProjectHR == mapServiceDeskSummary(DeskHR)

RequestTypeBug    == [id |-> "7", name |-> "Report a bug"]
RequestTypeAccess == [id |-> "8", name |-> "Get access"]

ProjectsResults ==
    {ProjectsResult("threw", <<>>), ProjectsResult("error", <<>>),
     ProjectsResult("ok", <<>>), ProjectsResult("ok", <<ProjectIT>>),
     ProjectsResult("ok", <<ProjectHR, ProjectIT>>)}

RequestTypesResults ==
    {RequestTypesResult("threw", <<>>), RequestTypesResult("error", <<>>),
     RequestTypesResult("ok", <<>>),
     RequestTypesResult("ok", <<RequestTypeBug, RequestTypeAccess>>)}

FieldListings ==
    {<<>>, <<FieldAttach>>, <<FieldSummary, FieldHidden>>,
     <<FieldPriority, FieldCount>>, <<FieldPriority, FieldCount, FieldAttach>>}

FieldsResults ==
    {FieldsResult("threw", <<>>), FieldsResult("error", <<>>)}
        \cup {FieldsResult("ok", listing) : listing \in FieldListings}

SubmitResults ==
    {SubmitResult("success", "TJ-1", ""),
     SubmitResult("success", "TJ-2", "attachments_not_added"),
     SubmitResult("error", "", ""), SubmitResult("threw", "", "")}

UserTexts ==
    {"cancel", "STOP", "yes", "skip", "attach a file", "2", "high", "zzz", "   ",
     "I want to create a request"}

MaxFiles == 3
MaxAttachments == 3

DefaultEnv ==
    [projects |-> ProjectsResult("ok", <<>>),
     requestTypes |-> RequestTypesResult("ok", <<>>),
     fields |-> FieldsResult("ok", <<>>),
     create |-> SubmitResult("error", "", "")]

\* The resolver results that can meet the handling of a message in state
\* flow: only the resolver of the current stage is invoked.
UiEnvs(flow) ==
    IF ~flow.active
    THEN {[DefaultEnv EXCEPT !.projects = r] : r \in ProjectsResults}
    ELSE IF flow.stage = "select_project"
    THEN {[DefaultEnv EXCEPT !.requestTypes = r] : r \in RequestTypesResults}
    ELSE IF flow.stage = "select_request_type"
    THEN {[DefaultEnv EXCEPT !.fields = r] : r \in FieldsResults}
    ELSE IF flow.stage = "confirm"
    THEN {[DefaultEnv EXCEPT !.create = r] : r \in SubmitResults}
    ELSE {DefaultEnv}

\* The options of the field prompt among the messages, else the former ones.
PromptAfter(bot, former) ==
    LET prompts == {i \in 1..Len(bot) : bot[i].kind = "field_prompt"}
    IN  IF prompts = {} THEN former
        ELSE bot[CHOOSE i \in prompts : \A j \in prompts : i >= j].options

\* uiEvent records the last event handled: its kind, the text sent, the
\* dialogue state and the field prompt it met, the resolver results it was
\* given and the resolvers it invoked.
NoUiEvent ==
    [kind |-> "none", text |-> "", before |-> INITIAL_CREATE_FLOW,
     prompt |-> <<>>, env |-> DefaultEnv, calls |-> <<>>, files |-> <<>>]

UiEvent(kind, text, env, calls) ==
    [kind |-> kind, text |-> text, before |-> createFlow, prompt |-> fieldPrompt,
     env |-> env, calls |-> calls, files |-> <<>>]

\* The state updates of a handler reach the component state.
Land(step, event) ==
    /\ createFlow' = step.flow
    /\ lastBot' = step.bot
    /\ fieldPrompt' = PromptAfter(step.bot, fieldPrompt)
    /\ uiEvent' = event

\* A handler runs from its event to its last state update in one step.
ApplyEvent(step, event) ==
    /\ Land(step, event)
    /\ UNCHANGED <<storageVars, availVars, rateVars, createVars, llmVars,
                   entryVars,
                   sessionVars, raceVars,
                   fnVars>>

Apply(step, kind, text, env) ==
    ApplyEvent(step, UiEvent(kind, text, env, step.calls))

\* The same for a file selection.
ApplyFiles(step, files) ==
    ApplyEvent(step, [UiEvent("files", "", DefaultEnv, step.calls)
                         EXCEPT !.files = files])

\* processUserInput: a message typed and sent
ProcessUserInput(rawInput, env) ==
    LET text == Trim(rawInput)
    IN  /\ text # ""
        /\ Apply(processUserInput(createFlow, text, env), "message", text, env)

\* handleOptionClick
HandleOptionClick(option, env) ==
    IF option.action = "attach"
    THEN IF ~createFlow.active \/ createFlow.stage # "attachments"
            \/ ~createFlow.allowsAttachments
         THEN Apply(Step(createFlow, <<Bot("attachments_unavailable", <<>>)>>, <<>>),
                    "option", "", env)
         ELSE Apply(Step(createFlow, <<>>, <<>>), "option", "", env)
    ELSE LET text == Trim(IF option.value # "" THEN option.value ELSE option.label)
         IN  /\ text # ""
             /\ Apply(processUserInput(createFlow, text, env), "option", text, env)

\* handleAttachmentSelection
HandleAttachmentSelection(files) ==
    IF ~createFlow.active \/ createFlow.stage # "attachments"
       \/ createFlow.selectedProject = NullProject
    THEN ApplyFiles(Step(createFlow, <<Bot("start_request_first", <<>>)>>, <<>>),
                    files)
    ELSE /\ Len(files) > 0
         /\ Len(createFlow.temporaryAttachmentIds) + Len(files) <= MaxAttachments
         /\ ApplyFiles(attachFiles(createFlow, files), files)

\* The file selections of a run: up to MaxFiles files, each upload succeeding
\* or failing; a file that uploads is named and identified after the place
\* it takes among the attachments of the draft.
RECURSIVE Uploads(_, _, _)
Uploads(base, n, ok) ==
    IF n = 0 THEN <<>>
    ELSE LET place == base + Cardinality(ok \cap (1..n))
         IN  Append(Uploads(base, n - 1, ok),
                    IF n \in ok
                    THEN Reported(File("file" \o DecimalString(place),
                                       "tmp-" \o DecimalString(place)),
                                  IF place = 2 THEN "file2.txt" ELSE "")
                    ELSE File("broken", NULL))

FileSelections(base) ==
    {Uploads(base, n, ok) : n \in 1..MaxFiles, ok \in SUBSET (1..MaxFiles)}

ShownOptions == UNION {{lastBot[i].options[k] : k \in 1..Len(lastBot[i].options)}
                        : i \in 1..Len(lastBot)}

\* ---- the handlers of a session as they run: an event starts a handler,
\* ---- which either ends at once or sets `loading`, awaits a resolver or
\* ---- the uploads, updates the state and clears `loading` ----

\* A variant that takes events whatever `loading` says.
AcceptingAlways == TRUE

\* if (!text || loading) return;  if (loading) return;  disabled={loading}
Accepting == ~loading

\* fileInputRef.current.click() among what the handler did
OpensPicker(step) == \E i \in 1..Len(step.bot) : step.bot[i].kind = "select_files"

\* A handler that awaits: what it will write when the awaited call returns.
\* An upload writes with setCreateFlow((prev) => ...), so its update is
\* worked out from the state it finds when it lands.
Awaiting(step, event) == [upload |-> FALSE, step |-> step, event |-> event, files |-> <<>>]
Uploading(files) ==
    [upload |-> TRUE, step |-> Step(INITIAL_CREATE_FLOW, <<>>, <<>>),
     event |-> NoUiEvent, files |-> files]

RemoveAt(seq, i) == SubSeq(seq, 1, i - 1) \o SubSeq(seq, i + 1, Len(seq))

\* The handler of a message: one that invokes no resolver ends within the
\* event; one that invokes a resolver has set `loading` when the event ends.
Handle(step, event) ==
    IF step.calls = <<>>
    THEN Land(step, event) /\ UNCHANGED <<loading, inFlight>>
    ELSE /\ loading' = TRUE
         /\ inFlight' = Append(inFlight, Awaiting(step, event))
         /\ UNCHANGED flowVars

Elsewhere ==
    UNCHANGED <<storageVars, availVars, rateVars, createVars, llmVars, entryVars,
                raceVars, fnVars>>

\* handleSend / processUserInput
SendMessage(rawInput, env) ==
    LET text == Trim(rawInput)
        step == processUserInput(createFlow, text, env)
    IN  /\ text # "" /\ Accepting
        /\ Handle(step, UiEvent("message", text, env, step.calls))
        /\ pickerOpen' = (pickerOpen \/ OpensPicker(step))
        /\ Elsewhere

\* handleOptionClick
ClickOption(option, env) ==
    /\ Accepting
    /\ IF option.action = "attach"
       THEN IF ~createFlow.active \/ createFlow.stage # "attachments"
               \/ ~createFlow.allowsAttachments
            THEN /\ Land(Step(createFlow, <<Bot("attachments_unavailable", <<>>)>>, <<>>),
                         UiEvent("option", "", env, <<>>))
                 /\ UNCHANGED sessionVars
            ELSE /\ Land(Step(createFlow, <<>>, <<>>), UiEvent("option", "", env, <<>>))
                 /\ pickerOpen' = TRUE
                 /\ UNCHANGED <<loading, inFlight>>
       ELSE LET text == Trim(IF option.value # "" THEN option.value ELSE option.label)
                step == processUserInput(createFlow, text, env)
            IN  /\ text # ""
                /\ Handle(step, UiEvent("option", text, env, step.calls))
                /\ pickerOpen' = (pickerOpen \/ OpensPicker(step))
    /\ Elsewhere

\* The Attach button of the attachment strip (rendered in stage attachments,
\* disabled while loading).
ClickAttachButton ==
    /\ Accepting /\ ~pickerOpen
    /\ createFlow.active /\ createFlow.stage = "attachments"
    /\ createFlow.allowsAttachments
    /\ pickerOpen' = TRUE
    /\ UNCHANGED <<flowVars, loading, inFlight>>
    /\ Elsewhere

\* A variant that uploads the selection whatever the stage.
SelectFilesAnyStage(files) ==
    /\ pickerOpen
    /\ pickerOpen' = FALSE
    /\ IF Len(files) = 0
       THEN UNCHANGED <<flowVars, loading, inFlight>>
       ELSE /\ Len(createFlow.temporaryAttachmentIds) + Len(files) <= MaxAttachments
            /\ loading' = TRUE
            /\ inFlight' = Append(inFlight, Uploading(files))
            /\ UNCHANGED flowVars
    /\ Elsewhere

\* handleAttachmentSelection, the change event of the file input: it comes
\* from the open picker, and the handler does not look at `loading`.
SelectFiles(files) ==
    /\ pickerOpen
    /\ pickerOpen' = FALSE
    /\ IF ~createFlow.active \/ createFlow.stage # "attachments"
          \/ createFlow.selectedProject = NullProject
       THEN /\ Land(Step(createFlow, <<Bot("start_request_first", <<>>)>>, <<>>),
                    [UiEvent("files", "", DefaultEnv, <<>>) EXCEPT !.files = files])
            /\ UNCHANGED <<loading, inFlight>>
       ELSE IF Len(files) = 0
       THEN UNCHANGED <<flowVars, loading, inFlight>>
       ELSE /\ Len(createFlow.temporaryAttachmentIds) + Len(files) <= MaxAttachments
            /\ loading' = TRUE
            /\ inFlight' = Append(inFlight, Uploading(files))
            /\ UNCHANGED flowVars
    /\ Elsewhere

\* The awaited resolver or the uploads return: the handler updates the
\* state and, in its finally block, clears `loading`.
Complete(i) ==
    LET handler == inFlight[i]
        uploaded == attachFiles(createFlow, handler.files)
    IN  /\ IF handler.upload
           THEN Land(uploaded, [UiEvent("files", "", DefaultEnv, uploaded.calls)
                                   EXCEPT !.files = handler.files])
           ELSE Land(handler.step, handler.event)
        /\ inFlight' = RemoveAt(inFlight, i)
        /\ loading' = FALSE
        /\ UNCHANGED pickerOpen
        /\ Elsewhere

\* The messages and the selections of the session runs.
SessionTexts ==
    {"cancel", "yes", "skip", "attach a file", "I want to create a request",
     "open issue TJ-1"}

\* The resolver results of the session runs: a listing that leads on and a
\* failure, for the resolver of the current stage.
SessionEnvs(flow) ==
    UiEnvs(flow)
        \cap ({[DefaultEnv EXCEPT !.projects = r] :
                  r \in {ProjectsResult("threw", <<>>), ProjectsResult("ok", <<ProjectIT>>)}}
              \cup {[DefaultEnv EXCEPT !.requestTypes = r] :
                  r \in {RequestTypesResult("error", <<>>),
                         RequestTypesResult("ok", <<RequestTypeBug, RequestTypeAccess>>)}}
              \cup {[DefaultEnv EXCEPT !.fields = r] :
                  r \in {FieldsResult("threw", <<>>), FieldsResult("ok", <<FieldAttach>>)}}
              \cup {[DefaultEnv EXCEPT !.create = r] :
                  r \in {SubmitResult("success", "TJ-1", ""),
                         SubmitResult("threw", "", "")}}
              \cup {DefaultEnv})

SessionSelections(base) ==
    {<<>>} \cup {files \in FileSelections(base) : Len(files) = 1}

-----------------------------------------------------------------------------
(***************************************************************************)
(* Calls of the pure helpers of src/src/index.js: the issue keys of a      *)
(* message, and a valid-value label converted back to its wire form.       *)
(***************************************************************************)

NoFnCall ==
    [fn |-> "none", message |-> "", words |-> 0, keys |-> <<>>,
     field |-> NULL, option |-> 0, value |-> UNDEFINED,
     raw |-> NULL, answer |-> UNDEFINED, picked |-> 0, matched |-> 0]

\* The most words a message of the model is made of.
MaxWords == 3

\* The words of a message and what stands between two of them.
KeyWords == {"tj-1", "TJ-1", "a-1", "ab1-7", "tj-2x", "hi"}
KeySeparators == {" ", ""}

\* extractIssueKeysFromMessage(message), the message being the last one with
\* one more word.
ExtractIssueKeys(word, sep) ==
    /\ fnCall.fn \in {"none", "extractIssueKeys"}
    /\ fnCall.words < MaxWords
    /\ LET message == fnCall.message \o (IF fnCall.words = 0 THEN "" ELSE sep) \o word
       IN  fnCall' = [NoFnCall EXCEPT !.fn = "extractIssueKeys",
                                      !.message = message,
                                      !.words = fnCall.words + 1,
                                      !.keys = extractIssueKeysFromMessage(message)]
    /\ UNCHANGED <<storageVars, availVars, rateVars, createVars, flowVars, llmVars,
                   entryVars, sessionVars, raceVars>>

\* The most valid values a raw field of the model lists.
MaxOptions == 2

\* Raw valid values: with id and value, with one of them, with no label but a
\* name, a plain string, a user (accountId), a bare label, and labels that
\* read as numbers.
OptMedium == Obj(NULL, NULL, "med", NULL, "Medium")
OptNamed  == Obj(NULL, "103", NULL, "Urgent", NULL)
OptUser   == Obj("acc-1", "5", NULL, NULL, "Ann")
OptBare   == Obj(NULL, NULL, NULL, NULL, "Plain")
OptTwo    == Obj(NULL, "10", NULL, NULL, "2")
OptOne    == Obj(NULL, "11", NULL, NULL, "1")

RawOptions ==
    {OptLow, OptHigh, OptMedium, OptNamed, OptUser, OptBare, OptTwo, OptOne,
     Str("Other")}

OptionLists ==
    UNION {{list \in [1..n -> RawOptions] :
                \A i, j \in 1..n : list[i] = list[j] => i = j} : n \in 1..MaxOptions}

OptionFields ==
    {RawField("customfield_3", "Level", TRUE, TRUE, schemaType, list) :
        schemaType \in {"option", "array"}, list \in OptionLists}

\* normalizePortalField(field), then convertFieldAnswerToRequestValue with
\* the label of the option at position k of the normalized field, as the
\* first call of a run.
ConvertLabel(field, k) ==
    LET normalized == normalizePortalField(field)
    IN  /\ fnCall.fn = "none"
        /\ k \in 1..Len(normalized.validValues)
        /\ fnCall' = [NoFnCall EXCEPT
                         !.fn = "convertLabel",
                         !.field = normalized,
                         !.option = k,
                         !.value = convertFieldAnswerToRequestValue(
                                       normalized, Str(normalized.validValues[k].label))]
        /\ UNCHANGED <<storageVars, availVars, rateVars, createVars, flowVars,
                       llmVars, entryVars, sessionVars, raceVars>>

\* Raw fields of every schema type, with and without valid values (one of
\* them a list that holds null only), the description field among them.
ShapedFields ==
    {RawField(fieldId, "Details", TRUE, TRUE, schemaType, list) :
        fieldId \in {"description", "customfield_3"},
        schemaType \in {"", "string", "number", "date", "datetime", "array"},
        list \in {<<>>, <<UNDEFINED>>, <<OptLow>>, <<OptLow, OptHigh>>}}

\* normalizePortalField(field), as the first call of a run.
NormalizePortalField(field) ==
    /\ fnCall.fn = "none"
    /\ fnCall' = [NoFnCall EXCEPT !.fn = "normalizePortalField",
                                  !.raw = field,
                                  !.field = normalizePortalField(field)]
    /\ UNCHANGED <<storageVars, availVars, rateVars, createVars, flowVars, llmVars,
                   entryVars, sessionVars, raceVars>>

\* Raw fields of four schema types, with and without valid values.
AnswerFields ==
    {RawField("customfield_3", "Level", TRUE, TRUE, schemaType, list) :
        schemaType \in {"option", "array", "number", "string"},
        list \in {<<>>, <<OptLow, OptHigh>>}}

\* Answers: none, blank and other texts, a number, objects whose first
\* present property is each of the five (and one with none), and lists.
FieldAnswers ==
    {UNDEFINED, Str(""), Str("  "), Str(" low "), Str("a, b"), Str("12"), Num(5),
     Obj("acc-1", "5", "v", "n", "Ann"), Obj("", "5", "v", "n", "Ann"),
     Obj(NULL, NULL, "v", "n", "Ann"), Obj(NULL, "", "", "n", "Ann"),
     Obj(NULL, NULL, NULL, NULL, "Ann"), Obj(NULL, NULL, NULL, NULL, NULL),
     Arr(<<>>), Arr(<<OptUser, UNDEFINED, Str("x"), OptBare>>)}

\* convertFieldAnswerToRequestValue(field, answer), as the first call of a
\* run.
ConvertAnswer(field, answer) ==
    /\ fnCall.fn = "none"
    /\ fnCall' = [NoFnCall EXCEPT
                     !.fn = "convertAnswer",
                     !.raw = field,
                     !.answer = answer,
                     !.value = convertFieldAnswerToRequestValue(field, answer)]
    /\ UNCHANGED <<storageVars, availVars, rateVars, createVars, flowVars, llmVars,
                   entryVars, sessionVars, raceVars>>

\* What a user may type to pick one of the options.
OptionInputs == {"1", "2", "low", "High", "10", "o", "xyz", " 3 "}

\* The tokenBuilder of the field options: [option.label, option.id, option.value]
OptionTokens(validValues) ==
    [i \in 1..Len(validValues) |->
        <<validValues[i].label, validValues[i].id, validValues[i].value>>]

\* One input matched against the options of a normalized field, by the
\* dialogue (findItemByUserInput) and by the resolver (matchValidValueOption),
\* as the first call of a run.
MatchInput(field, input) ==
    LET normalized == normalizePortalField(field)
    IN  /\ fnCall.fn = "none"
        /\ fnCall' = [NoFnCall EXCEPT
                         !.fn = "matchInput",
                         !.field = normalized,
                         !.answer = Str(input),
                         !.picked = findItemByUserInput(
                                        normalized.validValues, input,
                                        OptionTokens(normalized.validValues)),
                         !.matched = matchValidValueOption(normalized.validValues,
                                                           input)]
        /\ UNCHANGED <<storageVars, availVars, rateVars, createVars, flowVars,
                       llmVars, entryVars, sessionVars, raceVars>>

-----------------------------------------------------------------------------
(***************************************************************************)
(* A draft collected by the dialogue and submitted: collect_fields          *)
(* (src/static/portal-ui/src/App.js 1336-1380) followed by the resolver     *)
(* createPortalRequest (src/src/index.js 932-973).                          *)
(***************************************************************************)

\* A required field of schema type array without valid values (labels), and
\* one with valid values.
FieldLabels == RawField("labels", "Labels", TRUE, TRUE, "array", <<>>)
FieldLevels == RawField("customfield_3", "Levels", TRUE, TRUE, "array",
                        <<OptLow, OptHigh>>)

\* The field listings of the request types a draft is collected for.
CollectedListings ==
    {<<FieldSummary, FieldAttach>>, <<FieldSummary, FieldHidden>>,
     <<FieldPriority, FieldCount>>, <<FieldLabels>>, <<FieldLevels, FieldSummary>>}

\* What is given for a field: nothing (""), a blank text, and texts typed
\* at the field prompt.
DraftTexts == {"", "  ", ",", "hello", "2"}

\* fieldAnswers of the payload: for every field given a text, the answer the
\* dialogue stores when it accepts the text, and the text itself otherwise.
DraftAnswers(fields, texts) ==
    LET answered == {i \in 1..Len(fields) : texts[i] # ""}
        PositionOf(fieldId) == CHOOSE i \in answered : fields[i].fieldId = fieldId
    IN  [fieldId \in {fields[i].fieldId : i \in answered} |->
            IF AnswerRefused(fields[PositionOf(fieldId)], texts[PositionOf(fieldId)])
            THEN Str(texts[PositionOf(fieldId)])
            ELSE ParsedAnswer(fields[PositionOf(fieldId)], texts[PositionOf(fieldId)])]

\* createPortalRequest invoked with the answers given for the fields that
\* getPortalRequestTypeFields returned for the same listing, as the first
\* call of a run.
SubmitCollected(values, texts) ==
    LET fields == requestTypeFieldsOf(values).fields
        payload == [MainPayload EXCEPT !.fieldAnswers = DraftAnswers(fields, texts),
                                       !.temporaryAttachmentIds = <<>>]
        env == [MainEnv EXCEPT !.fields = FieldsOk(values)]
    IN  /\ ~crCall.done
        /\ Len(texts) = Len(fields)
        /\ crCall' = [done |-> TRUE, payload |-> payload, env |-> env,
                      result |-> createPortalRequest(payload, env, agentSettings,
                                                     projectChatSettings),
                      texts |-> texts]
        /\ UNCHANGED <<storageVars, availVars, rateVars, flowVars, llmVars,
                       entryVars, sessionVars, raceVars, fnVars>>

-----------------------------------------------------------------------------
(***************************************************************************)
(* Initial state and specifications.                                       *)
(***************************************************************************)
Init ==
    /\ agentSettings = "absent"
    /\ fastApiUrl = ""
    /\ projectChatSettings = [p \in KnownProjectIds |-> "absent"]
    /\ rateState = [r \in Requesters |-> NoWindow]
    /\ now = StartTime
    /\ avCall = NoAvCall
    /\ rlCall = NoRlCall
    /\ rlHistory = [r \in Requesters |-> NoHistory]
    /\ crCall = NoCrCall
    /\ createFlow = INITIAL_CREATE_FLOW
    /\ lastBot = <<>>
    /\ fieldPrompt = <<>>
    /\ uiEvent = NoUiEvent
    /\ llmSettings = NoLlmSettings
    /\ llmSecret = NULL
    /\ llmCall = NoLlmCall
    /\ epCall = NoEpCall
    /\ loading = FALSE
    /\ pickerOpen = FALSE
    /\ inFlight = <<>>
    /\ rlInFlight = [s \in Sessions |-> NoRead]
    /\ rlRace = NoRace
    /\ fnCall = NoFnCall

\* The dialogue of one portal session.
Next ==
    \/ \E rawInput \in UserTexts : \E env \in UiEnvs(createFlow) :
          ProcessUserInput(rawInput, env)
    \/ \E option \in ShownOptions : \E env \in UiEnvs(createFlow) :
          HandleOptionClick(option, env)
    \/ \E files \in FileSelections(Len(createFlow.temporaryAttachmentIds)) :
          HandleAttachmentSelection(files)

Spec == Init /\ [][Next]_vars

\* The availability policy under admin changes of the stored settings.
NextAvail ==
    \/ \E flag \in {"true", "false"} : SaveSettings(flag, "")
    \/ \E p \in KnownProjectIds : SaveProjectChatSettings(p)
    \/ \E ctx \in Contexts : \E env \in AvEnvs(ctx) : GetPortalChatAvailability(ctx, env)

SpecAvail == Init /\ [][NextAvail]_vars

\* The rate limiter under calls of two requesters and the passing of time.
NextRate ==
    \/ \E r \in Requesters : \E env \in RateEnvs : CheckPortalChatRateLimit(r, env)
    \/ Tick

SpecRate == Init /\ [][NextRate]_vars

\* The rate limiter under calls of two sessions of one requester whose
\* storage operations interleave, and the passing of time.
NextRace ==
    \/ \E s \in Sessions : RateRead(s)
    \/ \E s \in Sessions : RateWrite(s)
    \/ Tick

SpecRace == Init /\ [][NextRace]_vars

\* One portal session whose handlers take their time: events arrive while a
\* handler awaits.
NextSession ==
    \/ \E rawInput \in SessionTexts : \E env \in SessionEnvs(createFlow) :
          SendMessage(rawInput, env)
    \/ \E option \in ShownOptions : \E env \in SessionEnvs(createFlow) :
          ClickOption(option, env)
    \/ ClickAttachButton
    \/ \E files \in SessionSelections(Len(createFlow.temporaryAttachmentIds)) :
          SelectFiles(files)
    \/ \E i \in 1..Len(inFlight) : Complete(i)

SpecSession == Init /\ [][NextSession]_vars

\* createPortalRequest under admin changes of the per-project settings.
NextCreate ==
    \/ \E p \in KnownProjectIds : SaveProjectChatSettings(p)
    \/ \E payload \in CrPayloads : \E env \in CrEnvs(payload) :
          CreatePortalRequest(payload, env)
    \/ \E values \in CollectedListings :
          \E texts \in [1..Len(requestTypeFieldsOf(values).fields) -> DraftTexts] :
             SubmitCollected(values, texts)

SpecCreate == Init /\ [][NextCreate]_vars

\* The entry points of the request-creation path under admin changes of the
\* stored settings.
NextEntry ==
    \/ \E flag \in {"true", "false"} : SaveSettings(flag, "")
    \/ \E p \in KnownProjectIds : SaveProjectChatSettings(p)
    \/ \E c \in ContextCases : GetPortalChatAvailabilityEntry(c[1], c[2])
    \/ \E c \in ContextCases : GetPortalCreateRequestProjects(c[1], c[2])
    \/ \E c \in EntryCases : GetPortalRequestTypes(c[1], c[2])
    \/ \E c \in EntryCases : GetPortalRequestTypeFields(c[1], c[2])
    \/ \E c \in EntryCases : CreatePortalRequestEntry(c[1], c[2])

SpecEntry == Init /\ [][NextEntry]_vars

\* The lookup path under admin changes of the stored settings.
NextChat ==
    \/ \E saved \in ChatSettings : SaveSettings(saved[1], saved[2])
    \/ SaveProjectChatSettings("10")
    \/ SaveLLMSettings(ChatLlmPayload, 0)
    \/ \E c \in ChatCases : PortalChat("anonymous", c[1], c[2])
    \/ \E c \in LegacyChatCases : Chat(c[1], c[2])

SpecChat == Init /\ [][NextChat]_vars

\* The lookups of one requester, up to the rate limit and past it, under
\* admin changes of the project's switch and of the LLM settings.
NextLookup ==
    \/ SaveProjectChatSettings("10")
    \/ SaveLLMSettings(ChatLlmPayload, 0)
    \/ \E c \in LookupCases : PortalChat("acct-1", c[1], c[2])

SpecLookup == Init /\ [][NextLookup]_vars

\* The LLM settings under reads and saves by the admin.
NextLlm ==
    \/ \E record \in LegacyLlmRecords : UpgradeFromLegacy(record)
    \/ \E failAt \in LlmFailAts : GetLLMSettings(failAt)
    \/ \E payload \in LlmPayloads : \E failAt \in LlmFailAts :
          SaveLLMSettings(payload, failAt)

SpecLlm == Init /\ [][NextLlm]_vars

\* The pure helpers under calls with the messages and fields of the model.
NextFn ==
    \/ \E word \in KeyWords : \E sep \in KeySeparators : ExtractIssueKeys(word, sep)
    \/ \E field \in OptionFields : \E k \in 1..MaxOptions : ConvertLabel(field, k)
    \/ \E field \in OptionFields : \E input \in OptionInputs : MatchInput(field, input)
    \/ \E field \in ShapedFields : NormalizePortalField(field)
    \/ \E field \in AnswerFields : \E answer \in FieldAnswers :
          ConvertAnswer(field, answer)

SpecFn == Init /\ [][NextFn]_vars

-----------------------------------------------------------------------------
(***************************************************************************)
(* Properties of the dialogue (specification Spec).                        *)
(***************************************************************************)

\* The last event was a user message (typed or sent by an option button)
\* handled while the dialogue was active.
MessageInFlow ==
    uiEvent.kind \in {"message", "option"} /\ uiEvent.text # "" /\ uiEvent.before.active

CancelTokens == {"cancel", "stop", "exit", "reset"}

\* C1: a cancel token (cancel/stop/exit/reset, in any case) handled in any
\* active stage leaves the dialogue state exactly INITIAL_CREATE_FLOW and
\* invokes no resolver.
C1_CancelResets ==
    (MessageInFlow /\ ToLowerCase(uiEvent.text) \in CancelTokens)
        => /\ createFlow = INITIAL_CREATE_FLOW
           /\ ~createFlow.active /\ createFlow.stage = "idle"
           /\ createFlow.answers = NoAnswers
           /\ createFlow.temporaryAttachmentIds = <<>>
           /\ createFlow.attachmentNames = <<>>
           /\ createFlow.selectedProject = NullProject
           /\ createFlow.selectedRequestType = NullRequestType
           /\ uiEvent.calls = <<>>

\* A cancel token was handled in stage confirm, with answers collected and
\* files attached.
C1_Witness ==
    /\ MessageInFlow /\ uiEvent.text = "STOP"
    /\ uiEvent.before.stage = "confirm"
    /\ uiEvent.before.answers # NoAnswers
    /\ uiEvent.before.temporaryAttachmentIds # <<>>
    /\ createFlow = INITIAL_CREATE_FLOW

\* C2: in stage confirm a confirmation token invokes createPortalRequest
\* exactly once; on success the dialogue state is INITIAL_CREATE_FLOW; on an
\* error result or a throw the state is what it was (stage confirm, answers,
\* selections and temporaryAttachmentIds kept); any other non-cancel message
\* invokes nothing and leaves the state as it was.
C2_ConfirmStage ==
    (MessageInFlow /\ uiEvent.before.stage = "confirm" /\ ~IsCancel(uiEvent.text))
        => IF IsConfirm(uiEvent.text)
           THEN /\ uiEvent.calls = <<"createPortalRequest">>
                /\ uiEvent.env.create.kind = "success"
                       => createFlow = INITIAL_CREATE_FLOW
                /\ uiEvent.env.create.kind \in {"error", "threw"}
                       => /\ createFlow = uiEvent.before
                          /\ createFlow.stage = "confirm"
           ELSE /\ uiEvent.calls = <<>>
                /\ createFlow = uiEvent.before

\* A confirmation met a createPortalRequest that threw, with files attached.
C2_Witness ==
    /\ MessageInFlow /\ uiEvent.before.stage = "confirm"
    /\ IsConfirm(uiEvent.text)
    /\ uiEvent.env.create.kind = "threw"
    /\ uiEvent.calls = <<"createPortalRequest">>
    /\ createFlow.stage = "confirm"
    /\ createFlow.temporaryAttachmentIds # <<>>

\* The validation failures of an answer to a field: no option matched for a
\* field with valid values, a non-numeric text for a number field, an empty
\* text otherwise.
ValidationFails(field, text) ==
    IF Len(field.validValues) > 0 THEN MatchedOption(field, text) = 0
    ELSE IF field.inputType = "number" THEN ~IsNumericText(text)
    ELSE text = ""

\* C5: in stage collect_fields an answer that fails validation leaves stage,
\* currentFieldIndex and answers as they were, and for a field with options
\* the re-prompt carries the option list of the prompt that asked for it.
C5_InvalidAnswerKeepsField ==
    (/\ MessageInFlow /\ uiEvent.before.stage = "collect_fields"
     /\ ~IsCancel(uiEvent.text)
     /\ uiEvent.before.currentFieldIndex < Len(uiEvent.before.fields)
     /\ ValidationFails(CurrentField(uiEvent.before), uiEvent.text))
        => /\ createFlow.stage = "collect_fields"
           /\ createFlow.currentFieldIndex = uiEvent.before.currentFieldIndex
           /\ createFlow.answers = uiEvent.before.answers
           /\ Len(lastBot) = 1
           /\ Len(CurrentField(uiEvent.before).validValues) > 0
                  => /\ lastBot[1].options = uiEvent.prompt
                     /\ Len(lastBot[1].options) > 0

\* A text that matches no option was sent for a select field: the state is
\* as it was and the two options of the prompt are emitted again.
C5_Witness ==
    /\ MessageInFlow /\ uiEvent.before.stage = "collect_fields"
    /\ uiEvent.text = "zzz"
    /\ CurrentField(uiEvent.before).inputType = "select"
    /\ createFlow = uiEvent.before
    /\ Len(lastBot) = 1 /\ lastBot[1].kind = "invalid_option"
    /\ Len(lastBot[1].options) = 2

\* A text that passes validation was sent as the answer to the current
\* field of stage collect_fields.
ValidAnswer ==
    /\ MessageInFlow /\ uiEvent.before.stage = "collect_fields"
    /\ ~IsCancel(uiEvent.text)
    /\ uiEvent.before.currentFieldIndex < Len(uiEvent.before.fields)
    /\ ~ValidationFails(CurrentField(uiEvent.before), uiEvent.text)

\* The field answered was the last one of the list.
LastFieldAnswered ==
    uiEvent.before.currentFieldIndex + 1 = Len(uiEvent.before.fields)

\* The lines of a confirmation summary for the dialogue state: one line per
\* field, in the order of the field list, with the answer stored under the
\* field's id, and the attachment line.
SummaryOf(flow) ==
    [i \in 1..Len(flow.fields) + 1 |->
        IF i <= Len(flow.fields)
        THEN flow.fields[i].name \o ": "
                 \o formatAnswerForSummary(flow.answers[flow.fields[i].fieldId])
        ELSE "Attachments: not supported"]

\* C20 (as the code has it): in stage collect_fields a valid answer is stored
\* under the current field's id and the other answers are kept.  When a
\* further field follows, currentFieldIndex grows by exactly one and the
\* stage stays collect_fields.  When the field was the last one,
\* currentFieldIndex stays where it is and the stage moves on: to confirm
\* when the request type does not support attachments (never to
\* attachments), with one confirmation message whose summary lists every
\* field, in order, with the answer stored for it.
C20_ValidAnswerMovesOn ==
    ValidAnswer
        => LET before == uiEvent.before
               field == CurrentField(before)
           IN  /\ DOMAIN createFlow.answers = DOMAIN before.answers \cup {field.fieldId}
               /\ createFlow.answers[field.fieldId] = ParsedAnswer(field, uiEvent.text)
               /\ \A f \in DOMAIN before.answers \ {field.fieldId} :
                      createFlow.answers[f] = before.answers[f]
               /\ ~LastFieldAnswered
                      => /\ createFlow.currentFieldIndex = before.currentFieldIndex + 1
                         /\ createFlow.stage = "collect_fields"
               /\ LastFieldAnswered
                      => /\ createFlow.currentFieldIndex = before.currentFieldIndex
                         /\ createFlow.stage
                                = (IF before.allowsAttachments THEN "attachments"
                                   ELSE "confirm")
               /\ (LastFieldAnswered /\ ~before.allowsAttachments)
                      => /\ Len(lastBot) = 1
                         /\ lastBot[1].kind = "confirm_prompt"
                         /\ \A i \in 1..Len(createFlow.fields) :
                                createFlow.fields[i].fieldId \in DOMAIN createFlow.answers
                         /\ lastBot[1].detail = SummaryOf(createFlow)

\* The second of two fields was answered for a request type without
\* attachments: the stage is confirm and the summary has the two answers.
C20_Witness ==
    /\ ValidAnswer /\ LastFieldAnswered
    /\ Len(uiEvent.before.fields) = 2
    /\ ~uiEvent.before.allowsAttachments
    /\ createFlow.stage = "confirm"
    /\ createFlow.currentFieldIndex = 1
    /\ Len(lastBot) = 1
    /\ lastBot[1].detail = <<"Priority: High", "Seats: 2", "Attachments: not supported">>

\* C20 as stated: every valid answer advances currentFieldIndex by exactly
\* one.
C20_AsClaimed ==
    ValidAnswer
        => createFlow.currentFieldIndex = uiEvent.before.currentFieldIndex + 1

\* The last event was a message with create-request intent handled while no
\* dialogue was active.
CreateIntentWhenIdle ==
    /\ uiEvent.kind \in {"message", "option"} /\ uiEvent.text # ""
    /\ ~uiEvent.before.active
    /\ IsCreateIntent(uiEvent.text)

\* The project list came back and is not empty.
ProjectsListed ==
    uiEvent.env.projects.kind = "ok" /\ Len(uiEvent.env.projects.projects) > 0

\* C21: a message with create-request intent handled while the dialogue is
\* idle asks for the allowed projects once.  When the list is empty, is an
\* error result or cannot be fetched, one message without options explains
\* it and the dialogue state is INITIAL_CREATE_FLOW (active false, stage
\* idle).  With a non-empty list the state is INITIAL_CREATE_FLOW made
\* active in stage select_project with that list.  Stage select_project
\* never holds an empty project list.
C21_NoProjectsStaysIdle ==
    /\ CreateIntentWhenIdle
          => /\ uiEvent.calls = <<"getPortalCreateRequestProjects">>
             /\ Len(lastBot) = 1
             /\ IF ProjectsListed
                THEN /\ createFlow = [INITIAL_CREATE_FLOW EXCEPT
                                         !.active = TRUE,
                                         !.stage = "select_project",
                                         !.projects = uiEvent.env.projects.projects]
                     /\ lastBot[1].kind = "choose_project"
                ELSE /\ createFlow = INITIAL_CREATE_FLOW
                     /\ ~createFlow.active /\ createFlow.stage = "idle"
                     /\ lastBot[1].options = <<>>
                     /\ lastBot[1].kind
                            = (CASE uiEvent.env.projects.kind = "threw" -> "could_not_start"
                                 [] uiEvent.env.projects.kind = "error" -> "error"
                                 [] OTHER -> "no_enabled_projects")
    /\ createFlow.stage = "select_project" => Len(createFlow.projects) > 0

\* The intent met an empty list of allowed projects.
C21_Witness ==
    /\ CreateIntentWhenIdle
    /\ uiEvent.text = "I want to create a request"
    /\ uiEvent.env.projects = ProjectsResult("ok", <<>>)
    /\ createFlow = INITIAL_CREATE_FLOW
    /\ lastBot = <<Bot("no_enabled_projects", <<>>)>>

\* The last event was a message, not a cancel token, handled in stage
\* select_project.
InSelectProject ==
    /\ MessageInFlow /\ uiEvent.before.stage = "select_project"
    /\ ~IsCancel(uiEvent.text)

\* The position of the project the message matches in the list of the
\* dialogue, 0 when it matches none.
ProjectMatched ==
    LET projects == uiEvent.before.projects
    IN  findItemByUserInput(projects, uiEvent.text,
            [i \in 1..Len(projects) |->
                <<projects[i].projectName, projects[i].portalName,
                  projects[i].projectKey, projects[i].serviceDeskId>>])

RequestTypesListed ==
    uiEvent.env.requestTypes.kind = "ok"
        /\ Len(uiEvent.env.requestTypes.requestTypes) > 0

\* C28: in stage select_project a message that matches no project invokes
\* nothing, leaves the dialogue state as it was and prompts again with the
\* option list of the projects.  A message that matches a project asks for
\* its request types once: when the list is empty or does not load, the
\* state is as it was (stage select_project, no selected project); when
\* the list is not empty, the state differs only by stage
\* select_request_type, selectedProject, the matched project, and
\* requestTypes, the list.  Stage select_project never has a selected
\* project.
C28_SelectProject ==
    /\ InSelectProject
          => IF ProjectMatched = 0
             THEN /\ uiEvent.calls = <<>>
                  /\ createFlow = uiEvent.before
                  /\ Len(lastBot) = 1
                  /\ lastBot[1].options = buildProjectOptions(uiEvent.before.projects)
                  /\ Len(lastBot[1].options) = Len(uiEvent.before.projects)
             ELSE /\ uiEvent.calls = <<"getPortalRequestTypes">>
                  /\ IF RequestTypesListed
                     THEN createFlow
                             = [uiEvent.before EXCEPT
                                  !.stage = "select_request_type",
                                  !.selectedProject =
                                      uiEvent.before.projects[ProjectMatched],
                                  !.requestTypes =
                                      uiEvent.env.requestTypes.requestTypes]
                     ELSE /\ createFlow = uiEvent.before
                          /\ createFlow.stage = "select_project"
    /\ createFlow.stage = "select_project" => createFlow.selectedProject = NullProject

\* A project was matched and no request type came back for it: the state is
\* as it was and the projects are offered again.
C28_Witness ==
    /\ InSelectProject /\ ProjectMatched # 0
    /\ uiEvent.env.requestTypes = RequestTypesResult("ok", <<>>)
    /\ createFlow = uiEvent.before
    /\ createFlow.selectedProject = NullProject
    /\ Len(lastBot) = 1 /\ lastBot[1].kind = "no_request_types"
    /\ Len(lastBot[1].options) = 2

\* The stage to go to: collect_fields while a field is still to be asked,
\* else attachments when the request type supports them, else confirm.
RouteOnward(fieldsToCollect, allowsAttachments) ==
    IF fieldsToCollect THEN "collect_fields"
    ELSE IF allowsAttachments THEN "attachments"
    ELSE "confirm"

\* The position of the request type the message matches, 0 for none.
RequestTypeMatched ==
    LET requestTypes == uiEvent.before.requestTypes
    IN  findItemByUserInput(requestTypes, uiEvent.text,
            [i \in 1..Len(requestTypes) |-> <<requestTypes[i].name, requestTypes[i].id>>])

\* A request type was matched in stage select_request_type and its fields
\* came back.
RequestTypeSelected ==
    /\ MessageInFlow /\ uiEvent.before.stage = "select_request_type"
    /\ ~IsCancel(uiEvent.text)
    /\ RequestTypeMatched # 0
    /\ uiEvent.env.fields.kind = "ok"

\* C29: after a request type is selected the stage is collect_fields with
\* currentFieldIndex 0 when the request type has a field to collect, else
\* attachments when it supports attachments, else confirm; answers and the
\* attachment lists are empty, and the fields, allowsAttachments and the
\* selected request type are the ones that came back.  After a valid answer
\* the stage follows the same rule: collect_fields while a further field is
\* to be asked, else attachments when supported, else confirm.
C29_SameRouting ==
    /\ RequestTypeSelected
          => /\ createFlow.stage
                    = RouteOnward(Len(uiEvent.env.fields.fields) > 0,
                                  uiEvent.env.fields.allowsAttachments)
             /\ createFlow.currentFieldIndex = 0
             /\ createFlow.answers = NoAnswers
             /\ createFlow.temporaryAttachmentIds = <<>>
             /\ createFlow.attachmentNames = <<>>
             /\ createFlow.fields = uiEvent.env.fields.fields
             /\ createFlow.allowsAttachments = uiEvent.env.fields.allowsAttachments
             /\ createFlow.selectedRequestType
                    = uiEvent.before.requestTypes[RequestTypeMatched]
    /\ ValidAnswer
          => createFlow.stage
                 = RouteOnward(uiEvent.before.currentFieldIndex + 1
                                   < Len(uiEvent.before.fields),
                               uiEvent.before.allowsAttachments)

\* A request type without fields and without attachment support was
\* selected: the stage is confirm at once.
C29_Witness ==
    /\ RequestTypeSelected
    /\ uiEvent.env.fields.fields = <<>>
    /\ ~uiEvent.env.fields.allowsAttachments
    /\ createFlow.stage = "confirm"
    /\ Len(lastBot) = 1 /\ lastBot[1].kind = "confirm_prompt"

\* Files were selected while the dialogue was in stage attachments.
FilesInAttachments ==
    /\ uiEvent.kind = "files" /\ Len(uiEvent.files) > 0
    /\ uiEvent.before.active /\ uiEvent.before.stage = "attachments"
    /\ uiEvent.before.selectedProject # NullProject

\* The files of the selection whose upload succeeded / failed, in selection
\* order.
Succeeded == SelectSeq(uiEvent.files, LAMBDA f : f.uploadedId # NULL)
Failed    == SelectSeq(uiEvent.files, LAMBDA f : f.uploadedId = NULL)

\* C19: when n files are selected in stage attachments and k uploads fail,
\* every file is uploaded once, the ids and the file names of the n-k
\* successes, and nothing else, are appended in selection order to
\* temporaryAttachmentIds and attachmentNames, one error message is emitted
\* for each failed file (naming it), the successes are reported in one
\* message when there are any, and the rest of the dialogue state (stage
\* attachments, answers) is as it was.
C19_PartialUpload ==
    FilesInAttachments
        => LET before == uiEvent.before
               n == Len(uiEvent.files)
               k == Len(Failed)
           IN  /\ Len(uiEvent.calls) = n
               /\ createFlow.temporaryAttachmentIds
                      = before.temporaryAttachmentIds
                            \o [i \in 1..n - k |-> Succeeded[i].uploadedId]
               /\ createFlow.attachmentNames
                      = before.attachmentNames
                            \o [i \in 1..n - k |-> UploadedName(Succeeded[i])]
               /\ createFlow = [before EXCEPT
                                   !.temporaryAttachmentIds =
                                       createFlow.temporaryAttachmentIds,
                                   !.attachmentNames = createFlow.attachmentNames]
               /\ createFlow.stage = "attachments"
               /\ createFlow.answers = before.answers
               /\ Len(lastBot) = k + (IF n - k > 0 THEN 1 ELSE 0)
               /\ \A i \in 1..k :
                      /\ lastBot[i].kind = "upload_failed"
                      /\ lastBot[i].detail = <<Failed[i].name>>
               /\ n - k > 0
                      => /\ lastBot[k + 1].kind = "attached"
                         /\ lastBot[k + 1].detail
                                = [i \in 1..n - k |-> UploadedName(Succeeded[i])]

\* Three files were selected and the upload of the second one failed: the
\* first and the third were appended, one error and one report were emitted.
C19_Witness ==
    /\ FilesInAttachments
    /\ Len(uiEvent.files) = 3 /\ Len(Failed) = 1
    /\ uiEvent.files[2].uploadedId = NULL
    /\ uiEvent.before.temporaryAttachmentIds = <<>>
    /\ createFlow.temporaryAttachmentIds = <<"tmp-1", "tmp-2">>
    /\ createFlow.attachmentNames = <<"file1", "file2.txt">>
    /\ createFlow.stage = "attachments"
    /\ Len(lastBot) = 2 /\ lastBot[1].detail = <<"broken">>

\* The last event was a message, not a cancel token, handled in stage
\* attachments.
InAttachments ==
    /\ MessageInFlow /\ uiEvent.before.stage = "attachments"
    /\ ~IsCancel(uiEvent.text)

\* xs begins with ys
StartsWith(xs, ys) == Len(xs) >= Len(ys) /\ SubSeq(xs, 1, Len(ys)) = ys

\* C30: in stage attachments a skip token changes the stage to confirm and
\* no other field of the dialogue state (answers and the attachment lists
\* are kept); an attach-intent token changes no field; any other message
\* that is not a cancel token changes no field and prompts again with the
\* attachment options; no message invokes a resolver.  A file selection
\* handled in stage attachments lengthens temporaryAttachmentIds and
\* attachmentNames by the same number of entries and changes no other
\* field.
C30_AttachmentsStage ==
    /\ InAttachments
          => /\ uiEvent.calls = <<>>
             /\ IF IsSkip(uiEvent.text)
                THEN /\ createFlow = [uiEvent.before EXCEPT !.stage = "confirm"]
                     /\ createFlow.answers = uiEvent.before.answers
                     /\ createFlow.temporaryAttachmentIds
                            = uiEvent.before.temporaryAttachmentIds
                     /\ createFlow.attachmentNames = uiEvent.before.attachmentNames
                ELSE /\ createFlow = uiEvent.before
                     /\ ~IsAttachHelp(uiEvent.text)
                            => /\ Len(lastBot) = 1
                               /\ lastBot[1].options = AttachmentOptions
    /\ FilesInAttachments
          => /\ StartsWith(createFlow.temporaryAttachmentIds,
                           uiEvent.before.temporaryAttachmentIds)
             /\ StartsWith(createFlow.attachmentNames, uiEvent.before.attachmentNames)
             /\ Len(createFlow.temporaryAttachmentIds)
                    - Len(uiEvent.before.temporaryAttachmentIds)
                    = Len(createFlow.attachmentNames)
                         - Len(uiEvent.before.attachmentNames)
             /\ createFlow = [uiEvent.before EXCEPT
                                 !.temporaryAttachmentIds =
                                     createFlow.temporaryAttachmentIds,
                                 !.attachmentNames = createFlow.attachmentNames]

\* A skip token met a draft with a field answered and a file attached: the
\* stage is confirm, the answer and the file are kept.
C30_Witness ==
    /\ InAttachments /\ IsSkip(uiEvent.text)
    /\ uiEvent.before.answers # NoAnswers
    /\ uiEvent.before.temporaryAttachmentIds = <<"tmp-1">>
    /\ createFlow.stage = "confirm"
    /\ createFlow.answers = uiEvent.before.answers
    /\ createFlow.temporaryAttachmentIds = <<"tmp-1">>
    /\ createFlow.attachmentNames = <<"file1">>

-----------------------------------------------------------------------------
(***************************************************************************)
(* Properties of createPortalRequest (specification SpecCreate).           *)
(***************************************************************************)
CreateCalls == SelectSeq(crCall.result.calls, LAMBDA c : c.call = "create")
AttachCalls == SelectSeq(crCall.result.calls, LAMBDA c : c.call = "attach")

RetrySucceeded ==
    /\ crCall.done
    /\ Len(CreateCalls) = 2
    /\ CreateCalls[1].outcome = "not_ok"
    /\ CreateCalls[1].attachments # <<>>
    /\ CreateCalls[2].outcome = "ok"

TextOf(x) == IF x = NULL THEN "" ELSE x

\* What the retry's response says of the created issue: its key, else its id.
RetryIssue ==
    IF TextOf(crCall.env.create2.issueKey) # ""
    THEN crCall.env.create2.issueKey
    ELSE TextOf(crCall.env.create2.issueId)

\* C4 (as the code has it): when the first create call is refused and the
\* retry without attachment ids comes back ok, the result is a success that
\* carries the issue key and id of the retry's response, whatever the attach
\* call does; one attach call with the same attachment ids is made to the
\* created issue when the response names it by key or id, and none
\* otherwise; the warning is empty exactly when that attach call was made
\* and came back ok.
C4_AttachAfterRetry ==
    RetrySucceeded
        => /\ crCall.result.kind = "success"
           /\ crCall.result.issueKey = TextOf(crCall.env.create2.issueKey)
           /\ crCall.result.issueId = TextOf(crCall.env.create2.issueId)
           /\ Len(AttachCalls) = (IF RetryIssue # "" THEN 1 ELSE 0)
           /\ Len(AttachCalls) = 1
                  => /\ AttachCalls[1].attachments = CreateCalls[1].attachments
                     /\ AttachCalls[1].issue = RetryIssue
                     /\ crCall.result.calls[3] = AttachCalls[1]
           /\ crCall.result.warning = ""
                  <=> (Len(AttachCalls) = 1 /\ AttachCalls[1].outcome = "ok")

\* The attach call that followed a successful retry threw, and the result is
\* a success with a warning.
C4_Witness ==
    /\ RetrySucceeded
    /\ Len(AttachCalls) = 1 /\ AttachCalls[1].outcome = "throws"
    /\ crCall.result.kind = "success"
    /\ crCall.result.issueKey = "TJ-2"
    /\ crCall.result.warning # ""

\* C4 as the claim words it: after a refused first call and a successful
\* retry there is always one attach call with the same attachment ids, the
\* result is a success, and the warning is empty exactly when that call
\* came back ok.
C4_AsClaimed ==
    RetrySucceeded
        => /\ crCall.result.kind = "success"
           /\ Len(AttachCalls) = 1
           /\ AttachCalls[1].attachments = CreateCalls[1].attachments
           /\ crCall.result.warning = "" <=> AttachCalls[1].outcome = "ok"

-----------------------------------------------------------------------------
(***************************************************************************)
(* Properties of the rate limiter (specification SpecRate).                *)
(***************************************************************************)

\* The requester of the last call has met no storage failure so far.
LastCallOnWorkingStorage ==
    rlCall.done /\ rlHistory[rlCall.requester].faults = 0

\* C6: for a requester whose storage has worked throughout, a call is
\* allowed exactly when it is among the first 20 of its 60 000 ms window,
\* and the first call of a window (the first call ever, or the first made
\* 60 000 ms or more after the window's start) stores a window that starts
\* at the time of the call with count 1.
C6_TwentyPerWindow ==
    LastCallOnWorkingStorage
        => /\ rlCall.result.allowed <=> rlHistory[rlCall.requester].calls <= 20
           /\ rlHistory[rlCall.requester].calls = 1
                  => rateState[rlCall.requester] = StoredWindow(rlCall.at, 1)
           /\ rlHistory[rlCall.requester].calls \in 2..20
                  => rateState[rlCall.requester]
                         = StoredWindow(rlHistory[rlCall.requester].windowStart,
                                        rlHistory[rlCall.requester].calls)

\* A call made once a window of 20 calls had lasted 60 000 ms was allowed
\* and began a new window.
C6_Witness ==
    /\ LastCallOnWorkingStorage
    /\ rlCall.before.stored /\ rlCall.before.count = 20
    /\ rlCall.at - rlCall.before.windowStart = 60000
    /\ rlCall.result.allowed
    /\ rateState[rlCall.requester] = StoredWindow(rlCall.at, 1)

\* C7: the stored count of every requester's window is between 1 and 20,
\* and a denied call leaves the requester's stored window as it was.
C7_CountInRange ==
    /\ \A r \in Requesters :
           rateState[r].stored => rateState[r].count \in 1..20
    /\ (rlCall.done /\ ~rlCall.result.allowed)
           => rateState[rlCall.requester] = rlCall.before

\* A call was denied against a full window.
C7_Witness ==
    /\ rlCall.done /\ ~rlCall.result.allowed
    /\ rlCall.before.count = 20
    /\ rateState[rlCall.requester] = rlCall.before
    /\ rlCall.result.retryAfterSeconds >= 1

\* The call met a storage failure: the read threw, or the read succeeded and
\* the write that the call then made threw.  A call that finds the limit
\* reached in a live window makes no write.
StorageFailed(call) ==
    \/ call.env.read = "throws"
    \/ /\ call.env.write = "throws"
       /\ \/ WindowIsStale(call.before.windowStart, call.at)
          \/ ~LimitReached(call.before.count)

\* C18: a call of checkPortalChatRateLimit whose read or write of the window
\* state fails returns allowed:true, whatever count is stored, and leaves
\* the stored state as it was.
C18_FailOpen ==
    (rlCall.done /\ StorageFailed(rlCall))
        => /\ rlCall.result.allowed
           /\ rateState[rlCall.requester] = rlCall.before

\* The read fails for a requester who has used up the 20 requests of a
\* window that is still running.
C18_Witness ==
    /\ rlCall.done /\ rlCall.env.read = "throws"
    /\ rlCall.before.stored /\ rlCall.before.count = 20
    /\ ~WindowIsStale(rlCall.before.windowStart, rlCall.at)
    /\ rlCall.result.allowed

-----------------------------------------------------------------------------
(***************************************************************************)
(* Properties of the availability policy (specification SpecAvail).        *)
(***************************************************************************)

\* C8: when the stored agent settings have enableChatbot false (and are
\* read), the call returns enabled false with reason disabled_by_admin for
\* every context and every per-project map, and makes no lookup.
C8_DisabledByAdmin ==
    (avCall.done /\ avCall.env.agentRead = "ok" /\ avCall.agent = "false")
        => /\ avCall.result.kind = "returned"
           /\ ~avCall.result.enabled
           /\ avCall.result.reason = "disabled_by_admin"
           /\ avCall.result.lookups = <<>>

\* The assistant was switched off while a call named an enabled project.
C8_Witness ==
    /\ avCall.done /\ avCall.agent = "false" /\ avCall.env.agentRead = "ok"
    /\ avCall.ctx.projectId = " 10 " /\ avCall.projects["10"] = "true"
    /\ avCall.result.reason = "disabled_by_admin"

\* C9: when the assistant is not switched off and the resolver yields no
\* project id, the call returns enabled true with reason
\* missing_project_context and projectId null, whatever the map holds.
C9_MissingContext ==
    (avCall.done /\ avCall.env.agentRead = "ok" /\ avCall.agent # "false"
        /\ avCall.resolved = NULL)
        => /\ avCall.result.kind = "returned"
           /\ avCall.result.enabled
           /\ avCall.result.reason = "missing_project_context"
           /\ avCall.result.projectId = NULL

\* A portal id and a project key were given, both lookups failed, and the
\* map holds an enabled and a disabled project.
C9_Witness ==
    /\ avCall.done /\ avCall.agent # "false"
    /\ avCall.ctx.portalId = "5" /\ avCall.ctx.projectKey = "IT"
    /\ avCall.result.lookups = <<"servicedesk", "project">>
    /\ avCall.projects["10"] = "true" /\ avCall.projects["20"] = "false"
    /\ avCall.result.kind = "returned" /\ avCall.result.enabled
    /\ avCall.result.projectId = NULL

\* The trimmed text of a value, "" for a missing one.
TrimmedText(x) == IF x = NULL THEN "" ELSE Trim(x)

\* What a lookup yields: the trimmed id of an ok response, "" for a lookup
\* that throws, is not ok or names no id.
Yield(outcome) == IF outcome.kind = "ok" THEN TrimmedText(outcome.id) ELSE ""

\* C15: the resolved id is the trimmed projectId when that is not empty;
\* else what the service-desk lookup for the portalId yields, when there is
\* a portalId and the lookup yields an id; else what the project lookup for
\* the projectKey yields, when there is a projectKey and the lookup yields an
\* id; else null.  The lookups are made in that order and only as far as
\* needed, and a failed lookup neither stops the resolution nor throws.
C15_FirstSuccessWins ==
    avCall.done
        => LET ctx == avCall.ctx
               byId == TrimmedText(ctx.projectId)
               hasPortal == TrimmedText(ctx.portalId) # ""
               byPortal == IF hasPortal THEN Yield(avCall.env.portal) ELSE ""
               hasKey == ctx.projectKey # NULL /\ ctx.projectKey # ""
               byKey == IF hasKey THEN Yield(avCall.env.key) ELSE ""
               ran == avCall.env.agentRead = "ok" /\ avCall.agent # "false"
           IN  /\ avCall.resolved
                     = (IF byId # "" THEN byId
                        ELSE IF byPortal # "" THEN byPortal
                        ELSE IF byKey # "" THEN byKey ELSE NULL)
               /\ ran => avCall.result.lookups
                             = (IF byId # "" THEN <<>>
                                ELSE (IF hasPortal THEN <<"servicedesk">> ELSE <<>>)
                                     \o (IF byPortal = "" /\ hasKey
                                         THEN <<"project">> ELSE <<>>))

\* The service-desk lookup threw and the project lookup named project 20.
C15_Witness ==
    /\ avCall.done /\ avCall.env.agentRead = "ok" /\ avCall.agent # "false"
    /\ TrimmedText(avCall.ctx.projectId) = ""
    /\ avCall.ctx.portalId = "5" /\ avCall.env.portal = LookupThrows
    /\ avCall.ctx.projectKey = "IT" /\ avCall.env.key = LookupOk(" 20")
    /\ avCall.resolved = "20"
    /\ avCall.result.lookups = <<"servicedesk", "project">>

\* The assistant is not switched off, a project id is resolved and the
\* settings are read.
ProjectResolved ==
    /\ avCall.done /\ avCall.env.agentRead = "ok" /\ avCall.agent # "false"
    /\ avCall.resolved # NULL /\ avCall.env.projectRead = "ok"

\* The map's entry for the resolved id.
ResolvedEntry ==
    IF avCall.resolved \in DOMAIN avCall.projects
    THEN avCall.projects[avCall.resolved] ELSE "absent"

\* C10 (as the code has it): with a project id resolved, the call returns
\* enabled false with reason disabled_for_project unless the map's entry for
\* that id is true (the id is absent or its entry is false), and otherwise
\* returns enabled true with projectId the resolved id.
C10_ProjectDecision ==
    ProjectResolved
        => /\ avCall.result.kind = "returned"
           /\ avCall.result.projectId = avCall.resolved
           /\ IF ResolvedEntry = "true"
              THEN avCall.result.enabled /\ avCall.result.reason = NULL
              ELSE ~avCall.result.enabled
                   /\ avCall.result.reason = "disabled_for_project"

\* A project the admin switched on and off again was resolved through the
\* service-desk lookup and found disabled.
C10_Witness ==
    /\ ProjectResolved
    /\ avCall.resolved = "20" /\ avCall.result.lookups = <<"servicedesk">>
    /\ ResolvedEntry = "false"
    /\ avCall.result.reason = "disabled_for_project"

\* C10 as the claim words it: disabled_for_project exactly when the id is
\* not present in the map, and otherwise enabled with the resolved id.
C10_AsClaimed ==
    ProjectResolved
        => IF ResolvedEntry = "absent"
           THEN ~avCall.result.enabled
                /\ avCall.result.reason = "disabled_for_project"
           ELSE avCall.result.enabled /\ avCall.result.projectId = avCall.resolved

-----------------------------------------------------------------------------
(***************************************************************************)
(* Properties of the LLM settings (specification SpecLlm).                 *)
(***************************************************************************)

\* C13: with a key stored, no value handed back by getLLMSettings or
\* saveLLMSettings equals the stored key.
C13_NeverCleartext ==
    (llmCall.done /\ llmCall.result.kind = "returned"
        /\ llmCall.result.error = "" /\ llmSecret # NULL /\ llmSecret # "")
        => /\ llmCall.result.apiKey # llmSecret
           /\ llmCall.result.apiKeyMasked # llmSecret

\* The last call started from a record that holds a plaintext key, and it
\* returned.
LegacyKey == TrimmedOrEmpty(llmCall.before.settings.apiKey)
ReturnedFromLegacy ==
    /\ llmCall.done
    /\ LegacyKey # ""
    /\ llmCall.result.kind = "returned"

\* A save that hands in no key, or the masked form of the stored one, keeps
\* the stored key.
KeepsStoredKey(payload, storedKey) ==
    \/ TrimmedOrEmpty(payload.apiKey) = ""
    \/ TrimmedOrEmpty(payload.apiKey) = maskApiKey(storedKey)

\* Running the migration on the stores as they are changes neither.
MigrationSettled ==
    LET again == migrateLegacyLlmApiKeyIfNeeded(LlmStore(llmSettings, llmSecret), 0)
    IN  again.settings = llmSettings /\ again.secret = llmSecret

\* C26: from a record that holds a plaintext key, a read that returned, or
\* a save that returned past its checks of provider and model, leaves the
\* record without apiKey; the secret storage holds the (trimmed) key, or the
\* key the save handed in; the record keeps provider and model after a read
\* and holds the saved ones after a save; the migration run again changes
\* neither store.
C26_KeyMovedToSecret ==
    (ReturnedFromLegacy /\ llmCall.result.error = "") =>
        /\ llmSettings.apiKey = NULL
        /\ MigrationSettled
        /\ llmCall.op = "get" =>
               /\ llmSecret = LegacyKey
               /\ llmSettings.provider = llmCall.before.settings.provider
               /\ llmSettings.model = llmCall.before.settings.model
        /\ llmCall.op = "save" =>
               /\ llmSecret = IF KeepsStoredKey(llmCall.payload, LegacyKey)
                              THEN LegacyKey
                              ELSE TrimmedOrEmpty(llmCall.payload.apiKey)
               /\ llmSettings.provider = llmCall.payload.provider
               /\ llmSettings.model = llmCall.payload.model

\* C26 (witness): a read moved the key of a legacy record to the secret
\* storage and stripped it from the record.
C26_Witness ==
    /\ ReturnedFromLegacy
    /\ llmCall.op = "get"
    /\ llmCall.before.settings = LlmRecord("claude", NULL, " sk-12345678 ")
    /\ llmSecret = "sk-12345678"
    /\ llmSettings = LlmRecord("claude", NULL, NULL)

\* C26 (as claimed): after any read or save that returned.
C26_AsClaimed ==
    ReturnedFromLegacy =>
        /\ llmSettings.apiKey = NULL
        /\ llmSecret = LegacyKey
        /\ llmSettings.provider = llmCall.before.settings.provider
        /\ llmSettings.model = llmCall.before.settings.model
        /\ MigrationSettled

\* The last call was a save made while the secret storage held a key.
SavedOverKey ==
    /\ llmCall.done
    /\ llmCall.op = "save"
    /\ TrimmedOrEmpty(llmCall.before.secret) # ""

SaveRejected ==
    /\ llmCall.done
    /\ llmCall.op = "save"
    /\ llmCall.result.error \in {"invalid_provider", "model_required"}

\* C40: a save that returned while a key was stored leaves the record
\* { provider, model } of its payload; the stored secret is the one held
\* before when the payload's apiKey is blank or the masked form of the stored
\* key, and the payload's (trimmed) apiKey otherwise; a save rejected for its
\* provider or model leaves the record and the secret as they were.
C40_KeepOrReplaceKey ==
    /\ (SavedOverKey /\ llmCall.result.kind = "returned"
            /\ llmCall.result.error = "")
        => /\ llmSettings = LlmRecord(llmCall.payload.provider,
                                      llmCall.payload.model, NULL)
           /\ llmSecret = IF KeepsStoredKey(llmCall.payload, llmCall.before.secret)
                          THEN llmCall.before.secret
                          ELSE Trim(llmCall.payload.apiKey)
    /\ SaveRejected
        => /\ llmSettings = llmCall.before.settings
           /\ llmSecret = llmCall.before.secret

\* C40 (witness): a save that handed in the masked form of the stored key
\* changed the provider and left the key.
C40_Witness ==
    /\ SavedOverKey
    /\ llmCall.result.kind = "returned"
    /\ llmCall.before.secret = "sk-12345678"
    /\ llmCall.payload.apiKey = "sk-1...5678"
    /\ llmCall.before.settings.provider # llmCall.payload.provider
    /\ llmSettings.provider = llmCall.payload.provider
    /\ llmSecret = "sk-12345678"

-----------------------------------------------------------------------------
(***************************************************************************)
(* Properties of the entry points (specification SpecEntry).               *)
(***************************************************************************)

\* The project id the context of the last entry call resolves to.
EntryResolved ==
    resolveProjectIdFromContext(epCall.payload.ctx, epCall.env.av).id

\* The service desks of the user's listing whose project the map holds as
\* true and, with a project resolved from the context, whose project is the
\* resolved one; none when the assistant is switched off.
AllowedDesks ==
    LET listed == {epCall.env.desks.values[i] :
                      i \in 1..Len(epCall.env.desks.values)}
        resolved == EntryResolved
    IN  IF epCall.agent = "false" \/ epCall.env.desks.kind # "ok" THEN {}
        ELSE {[serviceDeskId |-> TextOf(d.id),
               projectId |-> normalizeProjectId(d.projectId)] :
                d \in {d \in listed :
                        /\ TextOf(d.id) # ""
                        /\ normalizeProjectId(d.projectId) \in DOMAIN epCall.projects
                        /\ epCall.projects[normalizeProjectId(d.projectId)] = "true"
                        /\ resolved # NULL
                              => normalizeProjectId(d.projectId) = resolved}}

AllowedDeskIds == {d.serviceDeskId : d \in AllowedDesks}

DeskEntries ==
    {"getPortalRequestTypes", "getPortalRequestTypeFields", "createPortalRequest"}

\* C12: every project getPortalCreateRequestProjects offers is a desk of the
\* user's listing whose project is enabled in the map and is the project
\* resolved from the context when there is one; getPortalRequestTypes,
\* getPortalRequestTypeFields and createPortalRequest make their Jira calls
\* only for the requested desk and only when it is such a desk, and for any
\* other desk return an error having made no call.
C12_OnlyAllowedDesks ==
    epCall.done
        => /\ epCall.entry = "getPortalCreateRequestProjects"
                => \A i \in 1..Len(epCall.result.items) :
                      [serviceDeskId |-> epCall.result.items[i].serviceDeskId,
                       projectId |-> epCall.result.items[i].projectId]
                          \in AllowedDesks
           /\ epCall.entry \in DeskEntries
                => /\ \A i \in 1..Len(epCall.result.calls) :
                         /\ epCall.result.calls[i].serviceDeskId \in AllowedDeskIds
                         /\ epCall.result.calls[i].serviceDeskId
                                = TrimmedId(epCall.payload.serviceDeskId)
                   /\ (epCall.result.kind = "returned"
                         /\ TrimmedId(epCall.payload.serviceDeskId) \notin AllowedDeskIds)
                        => /\ epCall.result.shape = "error"
                           /\ epCall.result.calls = <<>>

\* With both projects enabled and project 10 in context, request types were
\* asked for the desk of project 20: an error, and no Jira call.
C12_Witness ==
    /\ epCall.done /\ epCall.entry = "getPortalRequestTypes"
    /\ epCall.payload.serviceDeskId = " 2 "
    /\ epCall.payload.ctx = ContextIT
    /\ epCall.projects["10"] = "true" /\ epCall.projects["20"] = "true"
    /\ epCall.env = MainEnv
    /\ epCall.result.shape = "error"
    /\ epCall.result.error = "project_unavailable"
    /\ epCall.result.calls = <<>>

\* C14: every invocation of a conversation entry point completes with a
\* returned result, reply-, success- or error-shaped (or the list or decision
\* it was asked for), and never throws, whatever storage read or Jira call
\* fails.
C14_NeverThrows ==
    epCall.done
        => /\ epCall.result.kind = "returned"
           /\ epCall.result.shape
                  \in {"reply", "success", "error", "availability", "projects",
                       "requestTypes", "fields"}

-----------------------------------------------------------------------------
(***************************************************************************)
(* Properties of the lookup path (specifications SpecChat, SpecLookup).    *)
(***************************************************************************)

\* What getPortalChatAvailability decides for the context, the lookup
\* outcomes and the stored settings of the last entry call.
PolicySays ==
    getPortalChatAvailability(epCall.payload.ctx, epCall.env.av, epCall.agent,
                              epCall.projects)

\* C11: an entry point that reaches its enablement check proceeds past it
\* exactly when getPortalChatAvailability returns enabled true for the same
\* stored settings and context.
C11_SinglePolicy ==
    (epCall.done /\ epCall.result.gate \in {"open", "closed"}
        /\ PolicySays.kind = "returned")
        => (epCall.result.gate = "open" <=> PolicySays.enabled)

\* The last call was portalChat and it assembled the issue results of a
\* message with at least one issue key.
LookupAssembled ==
    /\ epCall.done /\ epCall.entry = "portalChat"
    /\ epCall.result.kind = "returned"
    /\ epCall.result.error = "lookup"

\* The last call was portalChat with a message that holds an issue key, and
\* it got past availability, rate limiter and the read of the LLM settings.
LookupReached ==
    /\ epCall.done /\ epCall.entry = "portalChat"
    /\ \E i \in 1..Len(epCall.result.calls) : epCall.result.calls[i] = "llmSettings"
    /\ epCall.result.kind = "returned"
    /\ epCall.result.error # "no_issue_key"

\* The issue keys of the message of the last call.
KeysOfCall == extractIssueKeysFromMessage(epCall.payload.message)

\* Every fetch of the last call that got an ok response could read its body.
BodiesReadable ==
    \A i \in 1..Len(KeysOfCall) : epCall.env.issues[i].kind # "bad_body"

\* The LLM settings were complete when the call was made: a model is stored
\* and a key is, in the secret storage or still in the record.
SettingsComplete ==
    /\ Present(epCall.llm.settings.model)
    /\ \/ TrimmedOrEmpty(epCall.llm.settings.apiKey) # ""
       \/ TrimmedOrEmpty(epCall.llm.secret) # ""

\* The completion gave a non-empty text.
CompletionText ==
    IF epCall.env.llm.kind = "ok" THEN TrimmedOrEmpty(epCall.env.llm.content) ELSE ""

\* C22: for a lookup message with at least one issue key, the reply is the
\* text of the LLM exactly when the LLM settings are complete and the
\* completion returns a non-empty text; otherwise (settings incomplete, HTTP
\* error, network error, empty response) it is the deterministic reply built
\* from the fetched issue results.  No outcome of the completion makes the
\* lookup fail.
C22_LlmTextOrFallback ==
    (LookupReached /\ BodiesReadable) =>
        /\ LookupAssembled
        /\ IF SettingsComplete /\ CompletionText # ""
           THEN epCall.result.reply = LlmReplyText(CompletionText)
           ELSE epCall.result.reply =
                    FallbackReplyText(formatFallbackReply(
                        epCall.result.items,
                        inferIntentFromMessage(epCall.payload.message)))

\* C22 (witness): with complete settings the provider answered 429, and the
\* reply is the deterministic one.
C22_Witness ==
    /\ LookupAssembled
    /\ SettingsComplete
    /\ epCall.env.llm = CompletionNotOk(429)
    /\ epCall.result.reply.source = "fallback"
    /\ epCall.result.reply.entries = <<<<"TJ-1 -- ", "Status: Unknown">>>>

\* The project the availability policy resolved for the last call.
ResolvedProject == PolicySays.projectId

\* The fetch of the i-th key of the last call failed: it threw, the response
\* was not ok or its body could not be read; or the issue is not one of the
\* resolved project.
FetchFailed(i) ==
    LET outcome == epCall.env.issues[i]
        issueProjectId == normalizeProjectId(outcome.projectId)
    IN  \/ outcome.kind \in {"throws", "not_ok", "bad_body"}
        \/ /\ ResolvedProject # NULL
           /\ (issueProjectId = NULL \/ issueProjectId # ResolvedProject)

\* The fetches among the calls of the last call, in order.
FetchesOfCall ==
    SelectSeq(epCall.result.calls, LAMBDA c : Len(c) > 6 /\ SubSeq(c, 1, 6) = "fetch:")

\* C23: a lookup of k distinct issue keys issues one fetch per key; its issue
\* results, and so the deterministic reply, have exactly one entry per key in
\* extraction order; a key whose fetch fails, or whose issue is not of this
\* project, has an error entry under its own key, and every other key has
\* its data.
C23_OneEntryPerKey ==
    LookupReached =>
        /\ FetchesOfCall = [i \in 1..Len(KeysOfCall) |-> "fetch:" \o KeysOfCall[i]]
        /\ Len(epCall.result.items) = Len(KeysOfCall)
        /\ Len(formatFallbackReply(epCall.result.items,
                                   inferIntentFromMessage(epCall.payload.message)))
               = Len(KeysOfCall)
        /\ \A i \in 1..Len(KeysOfCall) :
               IF FetchFailed(i)
               THEN /\ epCall.result.items[i].error # ""
                    /\ epCall.result.items[i].issueKey = KeysOfCall[i]
               ELSE /\ epCall.result.items[i].data
                    /\ epCall.result.items[i].issueKey = KeysOfCall[i]

\* The project id of the issue the i-th fetch of the last call returned;
\* NULL when the body names none.
IssueProjectOf(i) == normalizeProjectId(epCall.env.issues[i].projectId)

\* C36: in a lookup made with a resolved project id, an entry of the issue
\* results (the list the deterministic reply and the LLM prompt are built
\* from) carries the data of an issue only if the issue's project id is the
\* resolved one; a fetched issue of another project, or of none, has the
\* error entry "not in this portal project" under its key.
C36_OnlyThisProject ==
    (LookupAssembled /\ ResolvedProject # NULL) =>
        \A i \in 1..Len(epCall.result.items) :
            /\ epCall.result.items[i].data =>
                   /\ epCall.env.issues[i].kind = "ok"
                   /\ IssueProjectOf(i) = ResolvedProject
            /\ (epCall.env.issues[i].kind = "ok"
                    /\ IssueProjectOf(i) # ResolvedProject) =>
                   epCall.result.items[i] =
                       IssueError(KeysOfCall[i], "not in this portal project")

\* C36 (witness): in a lookup for project 10 the fetched issue named no
\* project, and its key has the error entry.
C36_Witness ==
    /\ LookupAssembled
    /\ ResolvedProject = "10"
    /\ epCall.env.issues[1] = IssueOk("TJ-1", NULL)
    /\ epCall.result.items = <<IssueError("TJ-1", "not in this portal project")>>

\* The last call was portalChat.
PortalChatCalled == epCall.done /\ epCall.entry = "portalChat"

\* Where a call stands in the order of the gates: availability, the rate
\* limiter's read and write, the read of the LLM settings, the issue
\* fetches, the completion.
GateRank(call) ==
    CASE call = "availability" -> 1
      [] call = "rate.get" -> 2
      [] call = "rate.set" -> 3
      [] call = "llmSettings" -> 4
      [] call = "complete" -> 6
      [] OTHER -> 5

CallsOfKind(ranks) ==
    {i \in 1..Len(epCall.result.calls) : GateRank(epCall.result.calls[i]) \in ranks}

\* The message of the last call is empty or blank.
EmptyMessage ==
    epCall.payload.message = NULL \/ Trim(epCall.payload.message) = ""

\* C27: portalChat applies its gates in this order: the check of the empty
\* message, the availability policy, the rate limiter, then lookup and LLM.
\* An empty message is rejected whatever the policy and the limiter would
\* say, and a message of a disabled project whatever the limiter would say;
\* neither reads or writes the rate-limit window.  A message the rate
\* limiter denies triggers no issue fetch and no completion.
C27_GateOrder ==
    PortalChatCalled =>
        /\ \A i, j \in 1..Len(epCall.result.calls) :
               i < j => GateRank(epCall.result.calls[i])
                            <= GateRank(epCall.result.calls[j])
        /\ \A rank \in {1, 2, 3, 4, 6} : Cardinality(CallsOfKind({rank})) <= 1
        /\ CallsOfKind({2, 3, 4, 5, 6}) # {} => CallsOfKind({1}) # {}
        /\ CallsOfKind({4, 5, 6}) # {} => CallsOfKind({2}) # {}
        /\ EmptyMessage =>
               /\ epCall.result.error = "enter_message"
               /\ epCall.result.calls = <<>>
               /\ rateState = epCall.rate
        /\ (~EmptyMessage /\ PolicySays.kind = "returned" /\ ~PolicySays.enabled) =>
               /\ epCall.result.error = "disabled"
               /\ CallsOfKind({2, 3, 4, 5, 6}) = {}
               /\ rateState = epCall.rate
        /\ epCall.result.error = "rate_limited" =>
               /\ CallsOfKind({3, 4, 5, 6}) = {}
               /\ rateState = epCall.rate

\* C27 (witness): a lookup message of an enabled project, sent when the
\* requester's window was full, was denied after the read of the window and
\* fetched nothing.
C27_Witness ==
    /\ PortalChatCalled
    /\ epCall.payload.message = "status of tj-1?"
    /\ epCall.rate["acct-1"].count = PORTAL_CHAT_RATE_LIMIT_MAX_REQUESTS
    /\ epCall.result.error = "rate_limited"
    /\ epCall.result.calls = <<"availability", "rate.get">>

-----------------------------------------------------------------------------
(***************************************************************************)
(* Properties of interleaved rate-limiter calls (specification SpecRace).  *)
(***************************************************************************)

\* C17: when calls of sessions of one requester interleave their read and
\* their write of the window state, the calls admitted into the stored window
\* exceed the stored count by no more than the number of overlapping pairs
\* of calls, and the calls admitted into any one window exceed 20 by no more
\* than that number.
C17_UndercountPerPair ==
    /\ rateState[SharedRequester].stored
           => AdmittedIn(rateState[SharedRequester].windowStart)
                  - rateState[SharedRequester].count <= rlRace.pairs
    /\ \A w \in DOMAIN rlRace.admitted :
           rlRace.admitted[w] <= PORTAL_CHAT_RATE_LIMIT_MAX_REQUESTS + rlRace.pairs

\* Two calls overlapped and one increment was lost: 21 requests were
\* admitted into a window whose stored count is 20.
C17_Witness ==
    /\ rlRace.pairs = 1
    /\ rateState[SharedRequester].count = 20
    /\ AdmittedIn(rateState[SharedRequester].windowStart) = 21
    /\ InFlightCalls = {}

-----------------------------------------------------------------------------
(***************************************************************************)
(* Properties of a session's handlers in progress (SpecSession).           *)
(***************************************************************************)

\* C16: at most one handler of a session is in progress.  While one is,
\* `loading` is set, no message, option click or file selection starts
\* another, and the dialogue state changes only when the handler in
\* progress lands its update.
C16_OneTransitionAtATime ==
    [][/\ Len(inFlight') <= 1
       /\ inFlight # <<>>
             => /\ loading
                /\ Len(inFlight') <= Len(inFlight)
                /\ createFlow' # createFlow
                      => /\ inFlight' = <<>>
                         /\ createFlow' = IF inFlight[1].upload
                                          THEN attachFiles(createFlow,
                                                           inFlight[1].files).flow
                                          ELSE inFlight[1].step.flow]_vars

\* While createPortalRequest is awaited, the file picker opened in stage
\* attachments is still open: files can be selected now.
C16_Witness ==
    /\ Len(inFlight) = 1 /\ loading /\ pickerOpen
    /\ ~inFlight[1].upload
    /\ inFlight[1].step.calls = <<"createPortalRequest">>
    /\ createFlow.stage = "confirm"


-----------------------------------------------------------------------------
(***************************************************************************)
(* Properties of the pure helpers (specification SpecFn).                  *)
(***************************************************************************)

\* A ticket key as ISSUE_KEY_REGEX reads it: a letter, one or more letters
\* or digits, a hyphen, one or more digits.
KeyShaped(token) ==
    \E h \in 3..(Len(token) - 1) :
        /\ ChAt(token, h) = "-"
        /\ IsUpperLetter(ChAt(token, 1))
        /\ \A i \in 2..(h - 1) : IsUpperAlnum(ChAt(token, i))
        /\ \A i \in (h + 1)..Len(token) : IsDigit(ChAt(token, i))

\* A ticket key as "letters then a hyphen then digits": one or more
\* letters, a hyphen, one or more digits.
LettersHyphenDigits(token) ==
    \E h \in 2..(Len(token) - 1) :
        /\ ChAt(token, h) = "-"
        /\ \A i \in 1..(h - 1) : IsUpperLetter(ChAt(token, i))
        /\ \A i \in (h + 1)..Len(token) : IsDigit(ChAt(token, i))

\* text[i..j] stands as a token of its own: no word character touches it.
Delimited(text, i, j) ==
    /\ 1 <= i /\ i <= j /\ j <= Len(text)
    /\ (i = 1 \/ ~IsWordChar(ChAt(text, i - 1)))
    /\ (j = Len(text) \/ ~IsWordChar(ChAt(text, j + 1)))

\* The positions where the upper-cased message holds the token.
StartsOf(text, token) ==
    {i \in 1..Len(text) :
        /\ Delimited(text, i, i + Len(token) - 1)
        /\ SubSeq(text, i, i + Len(token) - 1) = token}

\* The tokens of the wanted shape that the upper-cased message holds.
TokensOf(text, Shaped(_)) ==
    {SubSeq(text, i, j) : <<i, j>> \in
        {p \in (1..Len(text)) \X (1..Len(text)) :
            Delimited(text, p[1], p[2]) /\ Shaped(SubSeq(text, p[1], p[2]))}}

FirstStart(text, token) ==
    CHOOSE i \in StartsOf(text, token) : \A j \in StartsOf(text, token) : i <= j

\* keys lists exactly the tokens, each once, in the order of their first
\* occurrence in the text.
ListsInOrder(keys, tokens, text) ==
    /\ {keys[k] : k \in 1..Len(keys)} = tokens
    /\ \A k, l \in 1..Len(keys) : k < l => keys[k] # keys[l]
    /\ \A k, l \in 1..Len(keys) :
           k < l => FirstStart(text, keys[k]) < FirstStart(text, keys[l])

KeysExtracted == fnCall.fn = "extractIssueKeys"

\* C24: the issue keys extracted from a message are exactly the distinct
\* upper-cased tokens of the message that are shaped as a ticket key (a
\* letter, one or more letters or digits, a hyphen, digits), each once, in
\* the order of their first occurrence; none when the message holds no such
\* token.
C24_DistinctKeysInOrder ==
    KeysExtracted =>
        LET text == ToUpperCase(fnCall.message)
        IN  /\ ListsInOrder(fnCall.keys, TokensOf(text, KeyShaped), text)
            /\ (TokensOf(text, KeyShaped) = {} => fnCall.keys = <<>>)

\* C24 (witness): a message of three tokens, one of them twice and in two
\* letter cases, gave the two distinct keys in the order of first occurrence.
C24_Witness ==
    /\ KeysExtracted
    /\ fnCall.message = "tj-1 ab1-7 TJ-1"
    /\ fnCall.keys = <<"TJ-1", "AB1-7">>

\* C24 (as claimed): the tokens being those of letters, a hyphen and digits.
C24_AsClaimed ==
    KeysExtracted =>
        LET text == ToUpperCase(fnCall.message)
        IN  /\ ListsInOrder(fnCall.keys, TokensOf(text, LettersHyphenDigits), text)
            /\ (TokensOf(text, LettersHyphenDigits) = {} => fnCall.keys = <<>>)


LabelConverted == fnCall.fn = "convertLabel"

\* The option whose label was converted.
ConvertedOption == fnCall.field.validValues[fnCall.option]

\* The identifier of an option on the wire: its id, its value when it has no
\* id; a field of schema type array carries it in a list.
OwnIdentifier(field, option) ==
    LET own == IF Present(option.id) THEN Single("id", option.id)
               ELSE Single("value", option.value)
    IN  IF field.schemaType = "array" THEN Arr(<<own>>) ELSE own

\* C25: the label of an option of a normalized field, converted back to wire
\* form, yields that option's own id, or its value when it has no id (taken
\* for the options that have an id or a value and are not users).
C25_RoundTrip ==
    (/\ LabelConverted
     /\ ~Present(ConvertedOption.accountId)
     /\ (Present(ConvertedOption.id) \/ Present(ConvertedOption.value)))
        => fnCall.value = OwnIdentifier(fnCall.field, ConvertedOption)


InputMatched == fnCall.fn = "matchInput"

\* The input as both matchers read it: trimmed, in lower case.
MatchedInput == ToLowerCase(Trim(fnCall.answer.s))

\* The input names the position i of the list.
NamesPosition(i) == MatchedInput = DecimalString(i)

\* A token of the option at position i (label, id, value) contains the
\* input; a token equals it.
TokenContainsInput(i) ==
    \E token \in {fnCall.field.validValues[i].label, fnCall.field.validValues[i].id,
                  fnCall.field.validValues[i].value} :
        token # NULL /\ Trim(token) # "" /\ Includes(ToLowerCase(Trim(token)), MatchedInput)
TokenEqualsInput(i) ==
    \E token \in {fnCall.field.validValues[i].label, fnCall.field.validValues[i].id,
                  fnCall.field.validValues[i].value} :
        token # NULL /\ ToLowerCase(Trim(token)) = MatchedInput

\* The first position of the list that passes the test, 0 when none does.
FirstPassing(Passes(_)) ==
    LET passing == {i \in 1..Len(fnCall.field.validValues) : Passes(i)}
    IN  IF passing = {} THEN 0 ELSE CHOOSE i \in passing : \A j \in passing : i <= j

\* C31: the dialogue takes an input that names a position of the list for
\* that position, whatever the names are, and otherwise selects the first
\* element, left to right, one of whose tokens contains the input; the
\* resolver selects the first element, left to right, whose position or one
\* of whose tokens equals the input.
C31_PositionThenTokens ==
    InputMatched =>
        /\ fnCall.picked =
               IF \E i \in 1..Len(fnCall.field.validValues) : NamesPosition(i)
               THEN FirstPassing(NamesPosition)
               ELSE FirstPassing(TokenContainsInput)
        /\ fnCall.matched =
               FirstPassing(LAMBDA i : NamesPosition(i) \/ TokenEqualsInput(i))

\* C31 (witness): the input "2" named the second option while the label of
\* the first one is "2": the dialogue took the second, the resolver the first.
C31_Witness ==
    /\ InputMatched
    /\ fnCall.answer = Str("2")
    /\ fnCall.field.validValues[1].label = "2"
    /\ Len(fnCall.field.validValues) = 2
    /\ fnCall.picked = 2
    /\ fnCall.matched = 1

\* C31 (as claimed): both select the first element, left to right, that
\* passes the test of its position or the test of its tokens.
C31_AsClaimed ==
    InputMatched =>
        /\ fnCall.picked =
               FirstPassing(LAMBDA i : NamesPosition(i) \/ TokenContainsInput(i))
        /\ fnCall.matched =
               FirstPassing(LAMBDA i : NamesPosition(i) \/ TokenEqualsInput(i))


FieldNormalized == fnCall.fn = "normalizePortalField"

\* C32: the inputType of a normalized field is decided by the raw field
\* alone, in this order: valid values listed and schema type array give
\* multi_select; valid values listed give select; schema type number, date
\* or datetime give the type of that name; the field id description gives
\* textarea; anything else gives text.
C32_InputTypePrecedence ==
    FieldNormalized =>
        fnCall.field.inputType =
            CASE Len(fnCall.raw.validValues) > 0 /\ fnCall.raw.schemaType = "array"
                     -> "multi_select"
              [] Len(fnCall.raw.validValues) > 0 /\ fnCall.raw.schemaType # "array"
                     -> "select"
              [] Len(fnCall.raw.validValues) = 0
                    /\ fnCall.raw.schemaType \in {"number", "date", "datetime"}
                     -> fnCall.raw.schemaType
              [] Len(fnCall.raw.validValues) = 0
                    /\ fnCall.raw.schemaType \notin {"number", "date", "datetime"}
                    /\ fnCall.raw.fieldId = "description"
                     -> "textarea"
              [] OTHER -> "text"

\* C32 (witness): the description field with schema type number and no
\* valid values is a number field, not a textarea.
C32_Witness ==
    /\ FieldNormalized
    /\ fnCall.raw.fieldId = "description"
    /\ fnCall.raw.schemaType = "number"
    /\ fnCall.raw.validValues = <<>>
    /\ fnCall.field.inputType = "number"


AnswerConverted == fnCall.fn = "convertAnswer"

\* One of the five properties of the object is present.
HasIdentifier(object) ==
    \/ Present(object.accountId) \/ Present(object.id) \/ Present(object.value)
    \/ Present(object.name) \/ Present(object.label)

\* The single-key payload of an object: its first present property of
\* accountId, id, value and name under that key, else its label under the
\* key value.
FirstPresent(object) ==
    CASE Present(object.accountId) -> Single("accountId", object.accountId)
      [] ~Present(object.accountId) /\ Present(object.id) -> Single("id", object.id)
      [] ~Present(object.accountId) /\ ~Present(object.id) /\ Present(object.value)
             -> Single("value", object.value)
      [] ~Present(object.accountId) /\ ~Present(object.id) /\ ~Present(object.value)
            /\ Present(object.name)
             -> Single("name", object.name)
      [] OTHER -> Single("value", object.label)

\* The answer is null, or a blank text.
BlankAnswer(answer) ==
    answer.t = "undef" \/ (answer.t = "str" /\ Trim(answer.s) = "")

\* The elements of a list answer that are not null, in order.
GivenItems(answer) == SelectSeq(answer.items, LAMBDA item : item.t # "undef")

CandidateAnswers == {"1", "2", "12", "low", "high", "2026-01-31", "hello"}

\* C38: every normalized field has an answer that collect_fields accepts; a
\* normalized field whose inputType is select or multi_select has valid
\* values.
C38_SomeAnswerAccepted ==
    FieldNormalized =>
        /\ \E text \in CandidateAnswers : ~AnswerRefused(fnCall.field, text)
        /\ fnCall.field.inputType \in {"select", "multi_select"} =>
               Len(fnCall.field.validValues) > 0

\* The last call of createPortalRequest submitted a draft, and it got to
\* the check of the required fields.
DraftSubmitted ==
    /\ crCall.done
    /\ crCall.texts # <<>>
    /\ crCall.result.kind # "threw"
    /\ crCall.result.error = "missing_fields" \/ Len(crCall.result.calls) > 0

\* The fields the dialogue collected for the listing of the last call, and
\* the fields of the listing createPortalRequest requires.
CollectedFields == requestTypeFieldsOf(crCall.env.fields.values).fields
RequiredFields ==
    SelectSeq(crCall.env.fields.values,
              LAMBDA f : f.visible /\ f.required /\ f.fieldId # "attachment")

\* The dialogue accepted the text given for every collected field: it
\* reached confirm.
ReachedConfirm ==
    \A i \in 1..Len(CollectedFields) :
        ~AnswerRefused(CollectedFields[i], crCall.texts[i])

\* The answer to the i-th required field is missing or blank.
NoAnswerTo(i) ==
    \/ RequiredFields[i].fieldId \notin DOMAIN crCall.payload.fieldAnswers
    \/ BlankAnswer(crCall.payload.fieldAnswers[RequiredFields[i].fieldId])

\* C39: the fields the dialogue collects are the fields createPortalRequest
\* requires; for a draft that reached confirm every collected answer
\* converts to a defined wire value, the result is not 'Missing required
\* fields' and the create call is issued; when a required field has a
\* missing or blank answer the result is that error and no create call is
\* issued.
C39_CollectedMeetsRequired ==
    DraftSubmitted =>
        /\ [i \in 1..Len(CollectedFields) |-> CollectedFields[i].fieldId]
               = [i \in 1..Len(RequiredFields) |-> RequiredFields[i].fieldId]
        /\ ReachedConfirm =>
               /\ \A i \in 1..Len(RequiredFields) :
                      ~IsMissing(convertFieldAnswerToRequestValue(
                          RequiredFields[i],
                          crCall.payload.fieldAnswers[RequiredFields[i].fieldId]))
               /\ crCall.result.error # "missing_fields"
               /\ Len(CreateCalls) >= 1
        /\ (\E i \in 1..Len(RequiredFields) : NoAnswerTo(i)) =>
               /\ crCall.result.error = "missing_fields"
               /\ CreateCalls = <<>>

-----------------------------------------------------------------------------
(***************************************************************************)
(* Properties of the dialogue state (specifications Spec, SpecSession).    *)
(***************************************************************************)

\* The positions of createFlow.fields up to currentFieldIndex (which counts
\* from 0).
AskedPositions ==
    {i \in 1..Len(createFlow.fields) : i <= createFlow.currentFieldIndex + 1}

\* C34: active is true exactly when the stage is not idle; in collect_fields
\* there are fields and currentFieldIndex is the index of one; in attachments
\* the request type allows attachments; in collect_fields, attachments and
\* confirm a project and a request type are selected; every key of answers
\* is the fieldId of a field at a position up to currentFieldIndex.
C34_FlowStateShape ==
    /\ createFlow.active <=> createFlow.stage # "idle"
    /\ createFlow.stage = "collect_fields" =>
           /\ createFlow.fields # <<>>
           /\ createFlow.currentFieldIndex >= 0
           /\ createFlow.currentFieldIndex < Len(createFlow.fields)
    /\ createFlow.stage = "attachments" => createFlow.allowsAttachments
    /\ createFlow.stage \in {"collect_fields", "attachments", "confirm"} =>
           /\ createFlow.selectedProject # NullProject
           /\ createFlow.selectedRequestType # NullRequestType
    /\ \A fieldId \in DOMAIN createFlow.answers :
           \E i \in AskedPositions : createFlow.fields[i].fieldId = fieldId

\* C34 (witness): the second field is being asked and the first is answered.
C34_Witness ==
    /\ createFlow.stage = "collect_fields"
    /\ createFlow.currentFieldIndex = 1
    /\ DOMAIN createFlow.answers = {createFlow.fields[1].fieldId}


\* The last event handled was a selection of files.
FilesSelected == uiEvent.kind = "files"

\* C35: temporaryAttachmentIds and attachmentNames have the same length;
\* they are non-empty only in stage attachments or confirm of a request type
\* that allows attachments; a selection of files that finds the dialogue
\* outside stage attachments makes no upload call and leaves the dialogue
\* state as it was.
C35_AttachmentsInStep ==
    /\ Len(createFlow.temporaryAttachmentIds) = Len(createFlow.attachmentNames)
    /\ Len(createFlow.temporaryAttachmentIds) > 0 =>
           /\ createFlow.stage \in {"attachments", "confirm"}
           /\ createFlow.allowsAttachments
    /\ (FilesSelected /\ uiEvent.before.stage # "attachments") =>
           /\ uiEvent.calls = <<>>
           /\ createFlow = uiEvent.before

\* C35 (witness): with one file attached and the dialogue in stage confirm,
\* files were selected in the picker left open: nothing was uploaded.
C35_Witness ==
    /\ FilesSelected
    /\ Len(uiEvent.files) > 0
    /\ uiEvent.before.stage = "confirm"
    /\ Len(createFlow.temporaryAttachmentIds) = 1
    /\ uiEvent.calls = <<>>
    /\ createFlow = uiEvent.before


\* The event that lands in this step is a message the session accepted
\* (typed and sent, or the value of an option clicked).
MessageLands ==
    /\ uiEvent' # uiEvent
    /\ uiEvent'.kind \in {"message", "option"}
    /\ uiEvent'.text # ""

\* The handler of the landing event invoked the resolver.
Invoked(resolver) ==
    \E i \in 1..Len(uiEvent'.calls) : uiEvent'.calls[i] = resolver

\* C37: a message accepted while the create flow is active invokes neither
\* portalChat nor getPortalCreateRequestProjects (it does not restart the
\* flow), whatever it says; a message with create intent accepted while the
\* flow is idle invokes getPortalCreateRequestProjects and not portalChat.
C37_FlowConsumesMessages ==
    [][MessageLands =>
          IF uiEvent'.before.active
          THEN /\ ~Invoked("portalChat")
               /\ ~Invoked("getPortalCreateRequestProjects")
               /\ \A i \in 1..Len(lastBot') :
                      lastBot'[i].kind \notin {"lookup_reply", "choose_project"}
          ELSE IsCreateIntent(uiEvent'.text) =>
                   /\ uiEvent'.calls = <<"getPortalCreateRequestProjects">>
                   /\ ~Invoked("portalChat")]_vars

\* C37 (witness): a message with create-intent words and an issue key was
\* sent while the flow asked for the request type; it was taken as a choice
\* of request type, and refused.
C37_Witness ==
    /\ uiEvent.kind = "message"
    /\ uiEvent.text = "open issue TJ-1"
    /\ uiEvent.before.stage = "select_request_type"
    /\ uiEvent.calls = <<>>
    /\ createFlow = uiEvent.before

=============================================================================
